---- MODULE Spec2Model ----
(***************************************************************************)
(* Ingestion pipeline of the lottery collector: the upsert engine          *)
(* GameResultRepository.save_many over the game_results table, the         *)
(* per-state date loop of jobs/historical_collector.py, the connection and *)
(* attempt-log handling of GameCollectorService, and the job driver        *)
(* run_collection_job of jobs/game_collector_job.py.                       *)
(*                                                                         *)
(* Values are abstracted to small integers: a draw date is a day number,   *)
(* a draw time is a 5-minute bucket number, `numbers` is the serialized    *)
(* JSON string (1 = '["1","2","3"]', 2 = '["1","2","4"]', ...), jackpot    *)
(* the jackpot text.  NULL stands for SQL NULL / Python None.  The other   *)
(* compared columns (next_draw_date, next_draw_time, next_jackpot,         *)
(* timezone, special_number) are compared by the code exactly like jackpot *)
(* and are represented by it.                                              *)
(***************************************************************************)
EXTENDS Integers, Sequences, FiniteSets, TLC

\* ------------------------------------------------------------------ bounds
MaxGame    == 1   \* game ids 1..MaxGame
MaxState   == 2   \* state (jurisdiction) ids 1..MaxState
MaxDate    == 2   \* draw dates 1..MaxDate
MaxTime    == 2   \* draw times NULL, 1..MaxTime
MaxNum     == 2   \* serialized number strings 1..MaxNum
MaxJackpot == 0   \* jackpot texts NULL, 1..MaxJackpot
MaxBatch   == 2   \* records in one save_many call
MaxRecords == 2   \* records handed to save_many in fresh batches, in total
MaxReRun   == 1   \* calls that hand over the previous batch once more
MaxCalls   == 3   \* save_many calls
MaxFaults  == 1   \* write failures injected by the storage
NumStates  == 1   \* states returned by StateRepository.find_all
MaxMaxDays == 4   \* largest max_days argument tried
MaxGamesPerDay == 1  \* largest games_collected of one fetched page
MaxRaces   == 1   \* save_many calls that a concurrent writer falls into
MaxListLen == 3   \* longest list of number strings
MaxSlug    == 2   \* game slugs 1..MaxSlug
MaxGameName == 2  \* game names 1..MaxGameName
MaxGames   == 2   \* games in one GameRepository.save_many call
MaxGameCalls == 2 \* GameRepository.save_many calls
MaxNameWords == 2 \* words in a game name
MaxHour    == 23  \* hours 0..MaxHour of a time of day
MaxMinute  == 59  \* minutes 0..MaxMinute
MaxSecond  == 1   \* seconds tried: 0, 29 + k and 60 - k for k in 1..MaxSecond
NumThreads == 2   \* threads that call the shared-connection classmethods
MaxThreadCalls == 5 \* calls they make in total
MaxLongDays == 5  \* max_days of the crawl that outlasts MAX_EMPTY_DAYS after a date with records
MaxFatal   == 1   \* exceptions that escape the per-date handler of the date loop
MaxChunkDays == 1 \* largest max_days tried when the states span two chunks
MaxSvcCalls == 4  \* calls a client makes on GameCollectorService
MaxJobStates == 2 \* state codes handed to run_collection_job / found by find_all
MaxJobDates == 2  \* dates run_collection_job processes per state (days_back)

NULL == 0

GameIds  == 1..MaxGame
StateIds == 1..MaxState
Dates    == 1..MaxDate
Times    == 0..MaxTime
Numbers  == 1..MaxNum
Jackpots == 0..MaxJackpot

\* A GameResult object as save_many reads it (game_id resolved).
GameResults == [game_id : GameIds, state_id : StateIds, draw_date : Dates,
                draw_time : Times, numbers : Numbers, jackpot : Jackpots]

RECURSIVE SeqsUpTo(_, _)
SeqsUpTo(S, n) ==
  IF n = 0 THEN {<<>>}
  ELSE LET shorter == SeqsUpTo(S, n - 1)
       IN  shorter \cup {Append(q, x) : q \in {p \in shorter : Len(p) = n - 1}, x \in S}

VARIABLES
  rows,         \* committed content of table game_results
  nextId,       \* next value of the id sequence of game_results
  now,          \* CURRENT_TIMESTAMP of the next save_many transaction
  locked,       \* ids of rows locked by transactions left open on leaked connections
  hung,         \* a save_many call is blocked on a row lock and never returns
  uniqueIdx,    \* the table has a unique index on (game_id, draw_date, draw_time)
  calls,        \* save_many calls made
  fresh,        \* records handed over in fresh batches
  reruns,       \* calls that repeated the previous batch
  faults,       \* write failures injected so far
  lastBatch,    \* argument of the last save_many call
  prevBatch,    \* argument of the call before it
  rowsBefore,   \* committed table when the last call started
  lastRet,      \* dict returned by the last save_many call
  lastRerun,    \* the last call repeated the batch of the call before it
  lastFault,    \* the failure injected into the last call
  lastRace,     \* the concurrent insert that fell into the last call
  cpc,                    \* position of collect_historical_data: "start", "loop", "done"
  stateIdx,               \* index in all_states of the state being crawled
  max_days,               \* argument max_days
  current_date,           \* date being examined, in days relative to today (0)
  days_processed,
  empty_days_count,
  state_games_collected,
  retry_count,            \* retry_count as the last iteration left it
  fetchLog,               \* one entry per call of collect_games_by_date_with_state_data
  total_states,           \* len(all_states)
  batch_results,          \* len(batch_results) of the chunk being processed
  state_failed,           \* indexes of the states whose loop ended in the per-state except
  shared_connection,        \* GameCollectorService._shared_connection
  batch_collection_active,  \* GameCollectorService._batch_collection_active
  raw_open,               \* raw connections get_raw_connection handed out, not closed yet
  raw_made,               \* raw connections handed out so far
  pool_used,              \* pg_pool connections taken with getconn and not put back
  collection_log,         \* table collection_log: row id is the index
  logOids,                \* collection_log was created WITH OIDS
  status_written,         \* status values of the executed INSERT/UPDATE statements
  batch_upserts,          \* connections of the result upserts run in batch mode
  svc_calls,              \* calls made on the service
  batch_depth,            \* start_batch_collection calls not yet matched by an end call
  last_unit,              \* what the last crawl unit did
  jpc,                    \* position of run_collection_job
  job_args,               \* its arguments, as far as they steer it
  code_idx,               \* index in state_codes of the state being processed
  date_idx,               \* index in dates_to_process of the next date
  state_date_results,     \* results of the dates of the current state
  results,                \* the dict `results` of run_collection_job
  all_states_result,      \* the dict `results` of collect_all_states
  job_return,             \* the dict run_collection_job returned
  outcome,                \* "running", "returned" or "raised"
  finally_ran,            \* the finally block of run_collection_job has run
  fpc,                    \* position of the function call under study
  fin,                    \* its argument
  fout,                   \* the value it has produced so far
  games,                  \* committed content of table games
  state_games,            \* committed content of table state_games
  nextGameId,             \* next value of the id sequence of games
  nextAssocId,            \* next value of the id sequence of state_games
  game_calls,             \* GameRepository.save_many calls made
  lastGames,              \* argument `games` of the last of them
  lastStateId,            \* its argument state_id
  gamesBefore,            \* table games when it was called
  saved_games,            \* the list it returned
  touched,                \* (state_id, game_id) pairs of the games returned so far
  lock_owner,             \* thread holding _connection_lock, 0 when it is free
  tpc,                    \* per thread: the classmethod it is in, or "idle"
  handed,                 \* connections _get_shared_connection returned since the last close
  last_op,                \* the classmethod that ran last, its thread, whether a batch was active then
  thread_calls,           \* classmethod calls made by the threads
  records_appended,       \* batch_results.append calls of collect_historical_data so far
  chunk_saves             \* len(batch_results) of each of its save_many calls

upsertVars == <<rows, nextId, now, locked, hung, uniqueIdx, calls, fresh, reruns,
                faults, lastBatch, prevBatch, rowsBefore, lastRet, lastRerun, lastFault,
                lastRace>>

crawlVars == <<cpc, stateIdx, max_days, current_date, days_processed, empty_days_count,
               state_games_collected, retry_count, fetchLog, total_states, batch_results,
               state_failed>>

svcVars == <<shared_connection, batch_collection_active, raw_open, raw_made, pool_used,
             collection_log, logOids, status_written, batch_upserts, svc_calls,
             batch_depth, last_unit>>

jobVars == <<jpc, job_args, code_idx, date_idx, state_date_results, results,
             all_states_result, job_return, outcome, finally_ran>>

libVars == <<fpc, fin, fout>>

gameVars == <<games, state_games, nextGameId, nextAssocId, game_calls, lastGames,
              lastStateId, gamesBefore, saved_games, touched>>

threadVars == <<lock_owner, tpc, handed, last_op, thread_calls>>

handoffVars == <<records_appended, chunk_saves>>

vars == <<upsertVars, crawlVars, svcVars, jobVars, libVars, gameVars, threadVars, handoffVars>>

\* ---------------------------------------------------------- game_results
NoRow == [id |-> 0, game_id |-> 0, draw_date |-> 0, draw_time |-> NULL,
          numbers |-> 0, jackpot |-> NULL, collected_at |-> 0]

\* Rows a "game_id = g AND draw_date = d AND draw_time = t / IS NULL" query returns.
RowsWithKey(db, g, d, t) ==
  {r \in db : r.game_id = g /\ r.draw_date = d /\ r.draw_time = t}

\* Rows the batched lookup SELECT returns: any (game_id, draw_date) of the batch.
FetchedRows(db, game_results) ==
  {r \in db : \E i \in 1..Len(game_results) :
       game_results[i].game_id = r.game_id /\ game_results[i].draw_date = r.draw_date}

\* The orders in which a SELECT without ORDER BY may return a set of rows.
FetchOrders(F) ==
  LET ids == {r.id : r \in F}
  IN  {f \in [ids -> 1..Cardinality(ids)] : \A a, b \in ids : a # b => f[a] # f[b]}

LastFetched(S, ord) == CHOOSE r \in S : \A q \in S : ord[q.id] <= ord[r.id]

\* --------------------------------------------------- save_many: decisions
\* existing_regular_results, as the decision loop reads it for one record:
\* the dict maps (game_id, draw_date) to the last fetched row of that date
\* and (game_id, draw_date, draw_time) to the last fetched row with that
\* non-null time; the record tries its time key and falls back to the
\* (game_id, draw_date) key.
ExistingFor(F, ord, gr) ==
  LET primary == {r \in F : r.game_id = gr.game_id /\ r.draw_date = gr.draw_date}
      timed   == {r \in primary : r.draw_time # NULL /\ r.draw_time = gr.draw_time}
  IN  IF gr.draw_time # NULL /\ timed # {} THEN LastFetched(timed, ord)
      ELSE IF primary # {} THEN LastFetched(primary, ord)
      ELSE NoRow

\* The field comparison between an existing row and an incoming record.
NeedsUpdate(existing, gr) ==
  \/ existing.numbers # gr.numbers
  \/ existing.jackpot # gr.jackpot

\* The direct re-check of storage made before a record is queued for insert.
PreInsertCheck(db, gr) ==
  RowsWithKey(db, gr.game_id, gr.draw_date, gr.draw_time)

\* Decision for one incoming record: F is the batched lookup result, db the
\* table as the re-check query sees it.
Decide(F, ord, db, gr) ==
  LET existing == ExistingFor(F, ord, gr)
  IN  IF existing.id # 0
      THEN IF NeedsUpdate(existing, gr)
           THEN [kind |-> "update", id |-> existing.id]
           ELSE [kind |-> "unchanged", id |-> existing.id]
      ELSE IF PreInsertCheck(db, gr) # {}
           THEN [kind |-> "unchanged", id |-> (CHOOSE r \in PreInsertCheck(db, gr) : TRUE).id]
           ELSE [kind |-> "insert", id |-> 0]

Decisions(F, ord, db, game_results) ==
  [i \in 1..Len(game_results) |-> Decide(F, ord, db, game_results[i])]

RECURSIVE Ascending(_)
Ascending(S) ==
  IF S = {} THEN <<>>
  ELSE LET m == CHOOSE x \in S : \A y \in S : x <= y
       IN  <<m>> \o Ascending(S \ {m})

\* to_update: (numbers, jackpot, ..., id) tuples in batch order.
ToUpdate(game_results, dec) ==
  LET idx == Ascending({i \in DOMAIN dec : dec[i].kind = "update"})
  IN  [k \in 1..Len(idx) |-> [id |-> dec[idx[k]].id,
                              numbers |-> game_results[idx[k]].numbers,
                              jackpot |-> game_results[idx[k]].jackpot]]

\* to_insert: the records queued for insert, in batch order.
ToInsert(game_results, dec) ==
  LET idx == Ascending({i \in DOMAIN dec : dec[i].kind = "insert"})
  IN  [k \in 1..Len(idx) |-> game_results[idx[k]]]

UnchangedCount(dec) == Cardinality({i \in DOMAIN dec : dec[i].kind = "unchanged"})

\* --------------------------------------------------- save_many: execution
\* UPDATE ... SET numbers, jackpot, ..., collected_at = CURRENT_TIMESTAMP
\* WHERE id = %s, run for every tuple in order (the last tuple of an id wins).
ApplyUpdates(db, ups, t) ==
  {IF \E k \in 1..Len(ups) : ups[k].id = r.id
   THEN LET last == CHOOSE k \in 1..Len(ups) :
                       /\ ups[k].id = r.id
                       /\ \A j \in 1..Len(ups) : ups[j].id = r.id => j <= k
        IN  [r EXCEPT !.numbers = ups[last].numbers,
                      !.jackpot = ups[last].jackpot,
                      !.collected_at = t]
   ELSE r : r \in db}

\* Execution state of one call: db is the committed table, tx the table as
\* the call's open transaction sees it, aborted tells that a statement
\* failed in the open transaction and no rollback was issued yet.
ExecStart(db, unchanged) ==
  [db |-> db, tx |-> db, aborted |-> FALSE, nextId |-> nextId,
   inserted |-> 0, updated |-> 0, unchanged |-> unchanged, insert_errors |-> 0]

\* The update batch: one executemany, not committed here.
UpdateBatch(st, to_update, fails, t) ==
  IF to_update = <<>> THEN st
  ELSE IF fails THEN [st EXCEPT !.aborted = TRUE]
  ELSE [st EXCEPT !.tx = ApplyUpdates(st.tx, to_update, t),
                  !.updated = Len(to_update)]

\* An INSERT violates the unique index: SQL NULLs never collide.
DuplicateKey(uniq, tx, item) ==
  /\ uniq
  /\ item.draw_time # NULL
  /\ RowsWithKey(tx, item.game_id, item.draw_date, item.draw_time) # {}

\* The duplicate treated like any other failed insert.
ConflictCountedAsError(st, item, t) ==
  [st EXCEPT !.tx = st.db, !.aborted = FALSE, !.insert_errors = @ + 1]

\* except-branch of a failed insert whose message names a duplicate: after
\* the rollback the existing row is re-read and updated or left alone.
ConflictRecovery(st, item, t) ==
  LET rolled == [st EXCEPT !.tx = st.db, !.aborted = FALSE]
      found  == RowsWithKey(rolled.db, item.game_id, item.draw_date, item.draw_time)
  IN  IF found = {} THEN rolled
      ELSE LET existing == CHOOSE r \in found : TRUE
           IN  IF NeedsUpdate(existing, item)
               THEN LET db2 == ApplyUpdates(rolled.db,
                                 <<[id |-> existing.id, numbers |-> item.numbers,
                                    jackpot |-> item.jackpot]>>, t)
                    IN  [rolled EXCEPT !.db = db2, !.tx = db2, !.updated = @ + 1]
               ELSE [rolled EXCEPT !.unchanged = @ + 1]

\* One iteration of the insert loop for item number i of to_insert.
InsertOne(st, item, fails, uniq, t) ==
  IF st.aborted \/ fails
  THEN \* any other error: rollback, count an insert error
       [st EXCEPT !.tx = st.db, !.aborted = FALSE, !.insert_errors = @ + 1]
  ELSE IF DuplicateKey(uniq, st.tx, item)
  THEN ConflictRecovery(st, item, t)
  ELSE \* INSERT, then commit (which also commits the pending updates)
       LET row == [id |-> st.nextId, game_id |-> item.game_id,
                   draw_date |-> item.draw_date, draw_time |-> item.draw_time,
                   numbers |-> item.numbers, jackpot |-> item.jackpot,
                   collected_at |-> t]
           new == st.tx \cup {row}
       IN  [st EXCEPT !.tx = new, !.db = new, !.nextId = @ + 1, !.inserted = @ + 1]

RECURSIVE InsertLoop(_, _, _, _, _, _)
InsertLoop(st, to_insert, i, failAt, uniq, t) ==
  IF i > Len(to_insert) THEN st
  ELSE InsertLoop(InsertOne(st, to_insert[i], i = failAt, uniq, t),
                  to_insert, i + 1, failAt, uniq, t)

\* The dict save_many returns.
Summary(st) ==
  [success |-> TRUE, inserted |-> st.inserted, updated |-> st.updated,
   unchanged |-> st.unchanged, insert_errors |-> st.insert_errors,
   total |-> st.inserted + st.updated + st.unchanged]

EmptySummary ==
  [success |-> TRUE, inserted |-> 0, updated |-> 0, unchanged |-> 0,
   insert_errors |-> 0, total |-> 0]

NoFault == [kind |-> "none", at |-> 0]

\* The failures the storage may answer one call with.
FaultChoices(to_update, to_insert) ==
  {NoFault}
  \cup (IF faults < MaxFaults /\ to_update # <<>>
        THEN {[kind |-> "update", at |-> 0]} ELSE {})
  \cup (IF faults < MaxFaults
        THEN {[kind |-> "insert", at |-> i] : i \in 1..Len(to_insert)} ELSE {})

\* ------------------------------------------------------ save_many: action
AllBatches == SeqsUpTo(GameResults, MaxBatch)

\* A concurrent writer commits one row while save_many runs: after the
\* batched lookup and before the pre-insert re-checks ("after_lookup"), or
\* after the re-checks and before the inserts ("after_check").
NoRace == [phase |-> "none", rec |-> 0]

WriterRow(race) ==
  [id |-> nextId, game_id |-> race.rec.game_id, draw_date |-> race.rec.draw_date,
   draw_time |-> race.rec.draw_time, numbers |-> race.rec.numbers,
   jackpot |-> race.rec.jackpot, collected_at |-> now]

\* The committed table as the statements of a phase of the call see it
\* (READ COMMITTED: every statement sees what was committed before it).
TableAt(phase, race) ==
  IF race.phase = "after_lookup" \/ (race.phase = "after_check" /\ phase = "insert")
  THEN rows \cup {WriterRow(race)}
  ELSE rows

\* GameResultRepository.save_many(game_results).  Every call takes its own
\* connection from the pool and never gives it back, so what the call left
\* uncommitted stays uncommitted, with its row locks held.
SaveManyRacing(game_results, rerun, race) ==
  /\ ~hung
  /\ calls < MaxCalls
  /\ calls' = calls + 1
  /\ fresh' = IF rerun THEN fresh ELSE fresh + Len(game_results)
  /\ reruns' = IF rerun THEN reruns + 1 ELSE reruns
  /\ lastRerun' = rerun
  /\ prevBatch' = lastBatch
  /\ lastBatch' = game_results
  /\ rowsBefore' = rows
  /\ lastRace' = race
  /\ UNCHANGED uniqueIdx
  /\ UNCHANGED <<crawlVars, svcVars, jobVars, libVars, gameVars, threadVars, handoffVars>>
  /\ IF game_results = <<>>
     THEN /\ lastRet' = EmptySummary
          /\ lastFault' = NoFault
          /\ UNCHANGED <<rows, nextId, now, locked, hung, faults>>
     ELSE \E ord \in FetchOrders(FetchedRows(rows, game_results)) :
            LET F         == FetchedRows(rows, game_results)
                dec       == Decisions(F, ord, TableAt("check", race), game_results)
                to_update == ToUpdate(game_results, dec)
                to_insert == ToInsert(game_results, dec)
                blocked   == \E k \in 1..Len(to_update) : to_update[k].id \in locked
            IN  IF blocked
                THEN \* the UPDATE waits for a lock that is never released
                     /\ hung' = TRUE
                     /\ lastFault' = NoFault
                     /\ rows' = TableAt("insert", race)
                     /\ nextId' = IF race.phase = "none" THEN nextId ELSE nextId + 1
                     /\ UNCHANGED <<now, locked, faults, lastRet>>
                ELSE \E fault \in FaultChoices(to_update, to_insert) :
                       LET st0 == [ExecStart(TableAt("insert", race), UnchangedCount(dec))
                                     EXCEPT !.nextId = IF race.phase = "none" THEN @ ELSE @ + 1]
                           st1 == UpdateBatch(st0, to_update, fault.kind = "update", now)
                           st2 == InsertLoop(st1, to_insert, 1,
                                             IF fault.kind = "insert" THEN fault.at ELSE 0,
                                             uniqueIdx, now)
                       IN  /\ rows' = st2.db
                           /\ nextId' = st2.nextId
                           /\ now' = now + 1
                           /\ locked' = IF st2.tx # st2.db
                                        THEN locked \cup {to_update[k].id : k \in 1..Len(to_update)}
                                        ELSE locked
                           /\ hung' = FALSE
                           /\ faults' = IF fault = NoFault THEN faults ELSE faults + 1
                           /\ lastFault' = fault
                           /\ lastRet' = Summary(st2)

SaveMany(game_results, rerun) == SaveManyRacing(game_results, rerun, NoRace)

\* A crawl hands a batch of freshly extracted records to save_many.
UpsertBatch ==
  \E game_results \in AllBatches :
    /\ fresh + Len(game_results) <= MaxRecords
    /\ SaveMany(game_results, FALSE)

\* A crawl of the same pages runs again and hands over the same records.
UpsertAgain ==
  /\ calls > 0
  /\ lastBatch # <<>>
  /\ reruns < MaxReRun
  /\ SaveMany(lastBatch, TRUE)

\* ------------------------------------------------ historical_collector.py
MAX_EMPTY_DAYS == 3
BATCH_SIZE == 10
MAX_RETRIES == 3

\* Texts are sequences of words; `a in b` on Python strings is the test
\* that a occurs in b as a contiguous run.
Contains(text, phrase) ==
  \E k \in 0..(Len(text) - Len(phrase)) :
    \A j \in 1..Len(phrase) : text[k + j] = phrase[j]

SKIP_ERROR_MESSAGES ==
  { <<"500", "Server", "Error">>,
    <<"Internal", "Server", "Error">>,
    <<"429", "Too", "Many", "Requests">>,
    <<"503", "Service", "Unavailable">> }

\* HTTP statuses the results page may answer with, and their reason phrases.
HttpStatuses == {500, 503, 429}

Reason(status) ==
  CASE status = 500 -> <<"Internal", "Server", "Error">>
    [] status = 503 -> <<"Service", "Unavailable">>
    [] status = 429 -> <<"Too", "Many", "Requests">>

StatusWord(status) ==
  CASE status = 500 -> "500"
    [] status = 503 -> "503"
    [] status = 429 -> "429"

\* Text of the HTTPError that response.raise_for_status() raises.
HttpErrorText(status) ==
  <<StatusWord(status), IF status >= 500 THEN "Server" ELSE "Client", "Error", ":">>
    \o Reason(status) \o <<"for", "url", ":", "URL">>

\* Message of the result returned for a RequestException e.
RequestErrorMessage(e) ==
  <<"Error", "making", "request", "to", "state", "page", "with", "date", ":">> \o e

ConnectionErrorText == <<"Connection", "refused">>

NoGamesMessage == <<"No", "games", "found", "for", "state", "CODE", "on", "DATE">>

NoValidGamesMessage == <<"No", "valid", "games", "found", "for", "state", "CODE", "on", "DATE">>

\* What one call of collect_games_by_date_with_state_data(save_to_db=False)
\* can hand to the date loop.  raises: saving the games of a page that had
\* records raised inside the loop body (a storage error).
ServiceResults ==
  {[success |-> TRUE, games_collected |-> n, message |-> <<>>, http |-> 200, raises |-> FALSE] :
       n \in 0..MaxGamesPerDay}
  \cup {[success |-> TRUE, games_collected |-> n, message |-> <<>>, http |-> 200, raises |-> TRUE] :
       n \in 1..MaxGamesPerDay}
  \cup {[success |-> FALSE, games_collected |-> 0, message |-> NoGamesMessage,
         http |-> 200, raises |-> FALSE],
        [success |-> FALSE, games_collected |-> 0, message |-> NoValidGamesMessage,
         http |-> 200, raises |-> FALSE],
        [success |-> FALSE, games_collected |-> 0,
         message |-> RequestErrorMessage(ConnectionErrorText), http |-> 0, raises |-> FALSE]}
  \cup {[success |-> FALSE, games_collected |-> 0,
         message |-> RequestErrorMessage(HttpErrorText(st)), http |-> st, raises |-> FALSE] :
       st \in HttpStatuses}

\* ------------------------------------------- connections and attempt log
\* Connection identities: the raw connections of db_engine.get_raw_connection
\* and the connections of the psycopg2 pool pg_pool.
NoConn == <<"none", 0>>

RawConn(n) == <<"raw", n>>

PoolConn(n) == <<"pool", n>>

\* CollectionLog.STATUS_CHOICES of the backend's model of collection_log.
STATUS_CHOICES == {"pending", "processing", "completed", "failed"}

\* The class state of GameCollectorService with the pool and the log table.
Svc ==
  [shared |-> shared_connection, active |-> batch_collection_active,
   raw_open |-> raw_open, raw_made |-> raw_made, pool_used |-> pool_used,
   log |-> collection_log, written |-> status_written, upserts |-> batch_upserts]

\* _get_shared_connection opening a connection on every call.
GetSharedConnectionAlwaysNew(s, raw_ok) ==
  IF raw_ok
  THEN [s EXCEPT !.shared = RawConn(s.raw_made + 1),
                 !.raw_made = @ + 1,
                 !.raw_open = @ \cup {s.raw_made + 1}]
  ELSE s

\* _get_shared_connection: creates the connection when there is none;
\* raw_ok is whether get_raw_connection could open one (else it returns None).
GetSharedConnection(s, raw_ok) ==
  IF s.shared = NoConn /\ raw_ok
  THEN [s EXCEPT !.shared = RawConn(s.raw_made + 1),
                 !.raw_made = @ + 1,
                 !.raw_open = @ \cup {s.raw_made + 1}]
  ELSE s

\* _release_shared_connection without the test of the batch flag.
ReleaseSharedConnectionAlways(s) ==
  IF s.shared # NoConn
  THEN [s EXCEPT !.raw_open = @ \ {s.shared[2]}, !.shared = NoConn]
  ELSE s

\* _release_shared_connection: closes it unless a batch is active.
ReleaseSharedConnection(s) ==
  IF ~s.active /\ s.shared # NoConn
  THEN [s EXCEPT !.raw_open = @ \ {s.shared[2]}, !.shared = NoConn]
  ELSE s

\* start_batch_collection: sets the flag; a new batch starts a new record of
\* the upserts made in batch mode.
StartBatchCollection(s) ==
  [s EXCEPT !.active = TRUE, !.upserts = IF s.active THEN @ ELSE <<>>]

\* end_batch_collection: clears the flag and closes the shared connection.
EndBatchCollection(s) ==
  IF s.shared # NoConn
  THEN [s EXCEPT !.active = FALSE, !.raw_open = @ \ {s.shared[2]}, !.shared = NoConn]
  ELSE [s EXCEPT !.active = FALSE]

\* cursor.lastrowid after the INSERT into a table whose newest row is
\* number n: psycopg2 reports the OID of the inserted row, None when the
\* table has no OIDs.  OIDs come from the database-wide counter, far above
\* the ids of collection_log; they are written as negative numbers to keep
\* them apart from the row ids.
LastRowId(n) == IF logOids THEN 0 - n ELSE NULL

\* log_collection_attempt: takes a pool connection (never put back), inserts
\* the row and returns lastrowid.  fails: the INSERT raises a psycopg2 error,
\* which `except Error` (mysql.connector's Error) does not catch.
LogCollectionAttempt(s, status, fails) ==
  LET t == [s EXCEPT !.pool_used = @ + 1]
  IN  IF fails
      THEN [svc |-> t, log_id |-> NULL, row |-> 0, raised |-> TRUE]
      ELSE [svc |-> [t EXCEPT !.log = Append(@, [status |-> status, finalized |-> 0]),
                              !.written = @ \cup {status}],
            log_id |-> LastRowId(Len(t.log) + 1),
            row |-> Len(t.log) + 1,
            raised |-> FALSE]

\* update_collection_log: takes a pool connection (never put back) and
\* updates the row WHERE id = log_id.
UpdateCollectionLog(s, log_id, status) ==
  [s EXCEPT !.pool_used = @ + 1,
            !.written = @ \cup {status},
            !.log = [i \in DOMAIN s.log |->
                       IF i = log_id
                       THEN [status |-> status, finalized |-> s.log[i].finalized + 1]
                       ELSE s.log[i]]]

\* The guarded call `if log_id and save_to_db: update_collection_log(...)`.
UpdateLog(s, log_id, save_to_db, status) ==
  IF log_id # NULL /\ save_to_db THEN UpdateCollectionLog(s, log_id, status) ELSE s

\* GameResultRepository.save_many as far as connections go: it runs on a
\* connection it takes from the pool itself and never puts back.
SaveManyConnection(s) ==
  [s EXCEPT !.pool_used = @ + 1,
            !.upserts = IF s.active
                        THEN Append(@, [conn |-> PoolConn(s.pool_used + 1), shared |-> s.shared])
                        ELSE @]

\* What the fetch and the parsing of one page come to.
Pages ==
  {[kind |-> k, games |-> 0] :
     k \in {"request_error", "no_cards", "no_valid", "processing_error"}}
  \cup {[kind |-> "games", games |-> n] : n \in 0..MaxGamesPerDay}

StateNotFoundMessage ==
  <<"State", "with", "code", "CODE", "not", "found", "in", "database">>

ProcessingErrorMessage ==
  <<"Error", "processing", "state", "page", "with", "date", ":", "ERROR">>

PageMessage(kind) ==
  CASE kind = "request_error" -> RequestErrorMessage(ConnectionErrorText)
    [] kind = "no_cards" -> NoGamesMessage
    [] kind = "no_valid" -> NoValidGamesMessage
    [] kind = "processing_error" -> ProcessingErrorMessage
    [] OTHER -> <<>>

Result(success, games_collected, message) ==
  [success |-> success, games_collected |-> games_collected, message |-> message]

NoPage == [kind |-> "none", games |-> 0]

NoUnit ==
  [looked_up |-> FALSE, save_to_db |-> FALSE, row |-> 0, log_before |-> 0,
   raised |-> FALSE, result |-> Result(FALSE, 0, <<>>), method |-> "none", page |-> NoPage]

\* collect_games_by_date: one crawl unit.  lookup: the state is looked up by
\* code (known: find_by_code finds it).  The value is the service state the
\* call leaves and what the unit did; raised: an exception left the method.
CollectGamesByDate(s, lookup, known, save_to_db, page, raw_ok, log_fails) ==
  LET s1 == GetSharedConnection(s, raw_ok)
      unit == [NoUnit EXCEPT !.save_to_db = save_to_db, !.log_before = Len(s.log),
                             !.method = "by_date", !.page = page]
  IN  IF lookup /\ ~known
      THEN [svc |-> s1,
            unit |-> [unit EXCEPT !.result = Result(FALSE, 0, StateNotFoundMessage)]]
      ELSE LET lg == IF save_to_db
                     THEN LogCollectionAttempt(s1, "pending", log_fails)
                     ELSE [svc |-> s1, log_id |-> NULL, row |-> 0, raised |-> FALSE]
               u1 == [unit EXCEPT !.looked_up = TRUE, !.row = lg.row]
           IN  IF lg.raised
               THEN [svc |-> lg.svc, unit |-> [u1 EXCEPT !.raised = TRUE]]
               ELSE IF page.kind = "games"
               THEN LET s2 == IF save_to_db /\ page.games > 0
                              THEN SaveManyConnection(lg.svc) ELSE lg.svc
                    IN  [svc |-> UpdateLog(s2, lg.log_id, save_to_db, "success"),
                         unit |-> [u1 EXCEPT !.result = Result(TRUE, page.games, <<>>)]]
               ELSE [svc |-> UpdateLog(lg.svc, lg.log_id, save_to_db, "failed"),
                     unit |-> [u1 EXCEPT !.result = Result(FALSE, 0, PageMessage(page.kind))]]

StatePageErrorMessage ==
  <<"Error", "processing", "state", "page", ":", "ERROR">>

\* collect_games_by_state: the unit for the state's latest page.  Cards of
\* which none is a game section leave nothing to process, which is a
\* success with no games.  With save_to_db the loop over the game sections
\* calls Game(..., is_multi_state=...); Game.__init__ has no such parameter,
\* and the TypeError ends in `except Exception`.
CollectGamesByState(s, known, save_to_db, page, raw_ok, log_fails) ==
  LET s1 == GetSharedConnection(s, raw_ok)
      unit == [NoUnit EXCEPT !.save_to_db = save_to_db, !.log_before = Len(s.log),
                             !.method = "by_state", !.page = page]
  IN  IF ~known
      THEN [svc |-> s1,
            unit |-> [unit EXCEPT !.result = Result(FALSE, 0, StateNotFoundMessage)]]
      ELSE LET lg == IF save_to_db
                     THEN LogCollectionAttempt(s1, "pending", log_fails)
                     ELSE [svc |-> s1, log_id |-> NULL, row |-> 0, raised |-> FALSE]
               u1 == [unit EXCEPT !.looked_up = TRUE, !.row = lg.row]
               failed(message) ==
                 [svc |-> UpdateLog(lg.svc, lg.log_id, save_to_db, "failed"),
                  unit |-> [u1 EXCEPT !.result = Result(FALSE, 0, message)]]
               collected(n) ==
                 [svc |-> UpdateLog(lg.svc, lg.log_id, save_to_db, "success"),
                  unit |-> [u1 EXCEPT !.result = Result(TRUE, n, <<>>)]]
           IN  IF lg.raised
               THEN [svc |-> lg.svc, unit |-> [u1 EXCEPT !.raised = TRUE]]
               ELSE CASE page.kind = "games" ->
                           IF save_to_db THEN failed(StatePageErrorMessage)
                           ELSE collected(page.games)
                      [] page.kind = "no_valid" -> collected(0)
                      [] page.kind = "processing_error" -> failed(StatePageErrorMessage)
                      [] OTHER -> failed(PageMessage(page.kind))

\* collect_games_by_date_with_state_data: the same unit without the lookup.
CollectGamesByDateWithStateData(s, save_to_db, page, raw_ok, log_fails) ==
  CollectGamesByDate(s, FALSE, TRUE, save_to_db, page, raw_ok, log_fails)

\* The service state s becomes the next state.
SetSvc(s) ==
  /\ shared_connection' = s.shared
  /\ batch_collection_active' = s.active
  /\ raw_open' = s.raw_open
  /\ raw_made' = s.raw_made
  /\ pool_used' = s.pool_used
  /\ collection_log' = s.log
  /\ status_written' = s.written
  /\ batch_upserts' = s.upserts

StorageErrorText == <<"connection", "already", "closed">>

ShouldSkip(text) == \E skip_err \in SKIP_ERROR_MESSAGES : Contains(text, skip_err)

\* The retry branch of the loop body: "tries again" while the budget lasts,
\* else counts the date as empty.  retry_count was set to 0 at the top of
\* this same iteration.
RetryBranch(c) ==
  IF c.retry_count < MAX_RETRIES - 1
  THEN [c EXCEPT !.retry_count = @ + 1]
  ELSE [c EXCEPT !.empty_days_count = @ + 1]

\* except-branch of the loop body for an exception with text err_str.
OnException(c, err_str) ==
  IF ShouldSkip(err_str)
  THEN [c EXCEPT !.empty_days_count = @ + 1]
  ELSE RetryBranch(c)

\* The loop body with the reset done for every successful fetch.
HandleResultResetOnSuccess(c, result) ==
  IF result.success
  THEN [c EXCEPT !.state_games_collected = @ + result.games_collected,
                 !.empty_days_count = 0]
  ELSE [c EXCEPT !.empty_days_count = @ + 1]

\* Body of one iteration of the date loop between the fetch and the pause:
\* c holds the counters, with retry_count already reset to 0.
HandleResult(c, result) ==
  IF result.success
  THEN LET c1 == [c EXCEPT !.state_games_collected = @ + result.games_collected]
       IN  IF result.games_collected > 0
           THEN LET c2 == [c1 EXCEPT !.empty_days_count = 0]
                IN  IF result.raises
                    THEN OnException(c2, StorageErrorText)
                    ELSE [c2 EXCEPT !.batch_results = @ + result.games_collected]
           ELSE [c1 EXCEPT !.empty_days_count = @ + 1]
  ELSE LET error_msg == result.message
       IN  IF ShouldSkip(error_msg)
           THEN [c EXCEPT !.empty_days_count = @ + 1]
           ELSE IF Contains(error_msg, <<"No", "games", "found">>)
           THEN IF c.days_processed = 0
                THEN [c EXCEPT !.empty_days_count = MAX_EMPTY_DAYS]
                ELSE [c EXCEPT !.empty_days_count = @ + 1]
           ELSE IF Contains(error_msg, <<"not", "found", "in", "database">>)
           THEN [c EXCEPT !.empty_days_count = MAX_EMPTY_DAYS]
           ELSE RetryBranch(c)

LoopGuard == days_processed < max_days /\ empty_days_count < MAX_EMPTY_DAYS

\* for state in state_batch: the per-state initialisation.
StartState ==
  /\ cpc = "start"
  /\ stateIdx <= total_states
  /\ cpc' = "loop"
  /\ current_date' = 0
  /\ days_processed' = 0
  /\ empty_days_count' = 0
  /\ state_games_collected' = 0
  /\ retry_count' = 0
  /\ fetchLog' = <<>>
  /\ UNCHANGED <<stateIdx, max_days, total_states, batch_results, state_failed>>
  /\ UNCHANGED <<upsertVars, svcVars, jobVars, libVars, gameVars, threadVars, handoffVars>>

\* NextDay with the step to the previous day forgotten.
NextDaySameDate(c) ==
  [c EXCEPT !.days_processed = @ + 1]

\* End of the loop body: one day back, one more day processed.
NextDay(c) ==
  [c EXCEPT !.current_date = @ - 1, !.days_processed = @ + 1]

\* The counters of the date loop, retry_count as the top of the body sets it.
Counters ==
  [current_date |-> current_date,
   days_processed |-> days_processed,
   empty_days_count |-> empty_days_count,
   state_games_collected |-> state_games_collected,
   batch_results |-> batch_results,
   retry_count |-> 0]

\* One iteration of the while loop: fetch, handle, move one day back.  The
\* fetch goes through the service, which opens the shared connection when
\* there is none (on the engine that has just served find_all); with
\* save_to_db=False it writes no attempt log.
Iterate ==
  /\ cpc = "loop"
  /\ LoopGuard
  /\ \E result \in ServiceResults :
       LET c  == NextDay(HandleResult(Counters, result))
       IN  /\ current_date' = c.current_date
           /\ days_processed' = c.days_processed
           /\ empty_days_count' = c.empty_days_count
           /\ state_games_collected' = c.state_games_collected
           /\ batch_results' = c.batch_results
           /\ records_appended' = records_appended + (c.batch_results - batch_results)
           /\ retry_count' = c.retry_count
           /\ fetchLog' = Append(fetchLog, [date |-> current_date, result |-> result,
                                            empty_before |-> empty_days_count,
                                            empty_after |-> c.empty_days_count])
  /\ SetSvc(GetSharedConnection(Svc, TRUE))
  /\ UNCHANGED <<cpc, stateIdx, max_days, total_states, state_failed>>
  /\ UNCHANGED <<logOids, svc_calls, batch_depth, last_unit, chunk_saves>>
  /\ UNCHANGED <<upsertVars, jobVars, libVars, gameVars, threadVars>>

\* The state after the current one: the chunk is saved after its last state.
AfterState ==
  IF stateIdx % BATCH_SIZE = 0 \/ stateIdx = total_states THEN "save" ELSE "start"

\* The per-state except with the whole batch given up.
StateFailedAbortsJob ==
  /\ cpc = "loop"
  /\ LoopGuard
  /\ Cardinality(state_failed) < MaxFatal
  /\ state_failed' = state_failed \cup {stateIdx}
  /\ cpc' = "return"
  /\ UNCHANGED <<stateIdx, max_days, current_date, days_processed, empty_days_count,
                 state_games_collected, retry_count, fetchLog, total_states, batch_results>>
  /\ UNCHANGED <<upsertVars, svcVars, jobVars, libVars, gameVars, threadVars, handoffVars>>

\* An exception raised in the loop body that the per-date handler does not
\* absorb (raised outside the inner try, or by the handler itself) reaches
\* the per-state except: it is logged and the for loop goes on.
StateFailed ==
  /\ cpc = "loop"
  /\ LoopGuard
  /\ Cardinality(state_failed) < MaxFatal
  /\ state_failed' = state_failed \cup {stateIdx}
  /\ stateIdx' = stateIdx + 1
  /\ cpc' = AfterState
  /\ UNCHANGED <<max_days, current_date, days_processed, empty_days_count,
                 state_games_collected, retry_count, fetchLog, total_states, batch_results>>
  /\ UNCHANGED <<upsertVars, svcVars, jobVars, libVars, gameVars, threadVars, handoffVars>>

\* The loop condition fails: the state's summary, then the next state.
EndState ==
  /\ cpc = "loop"
  /\ ~LoopGuard
  /\ stateIdx' = stateIdx + 1
  /\ cpc' = AfterState
  /\ UNCHANGED <<max_days, current_date, days_processed, empty_days_count,
                 state_games_collected, retry_count, fetchLog, total_states, batch_results,
                 state_failed>>
  /\ UNCHANGED <<upsertVars, svcVars, jobVars, libVars, gameVars, threadVars, handoffVars>>

\* The end of a chunk with one batch_results list for the whole job.
SaveChunkKeepsBatch ==
  /\ cpc = "save"
  /\ IF batch_results > 0
     THEN /\ SetSvc(SaveManyConnection(Svc))
          /\ chunk_saves' = Append(chunk_saves, batch_results)
     ELSE UNCHANGED <<shared_connection, batch_collection_active, raw_open, raw_made,
                      pool_used, collection_log, status_written, batch_upserts,
                      chunk_saves>>
  /\ cpc' = IF stateIdx > total_states THEN "return" ELSE "start"
  /\ UNCHANGED <<stateIdx, max_days, current_date, days_processed, empty_days_count,
                 state_games_collected, retry_count, fetchLog, total_states, state_failed,
                 batch_results>>
  /\ UNCHANGED <<logOids, svc_calls, batch_depth, last_unit, records_appended>>
  /\ UNCHANGED <<upsertVars, jobVars, libVars, gameVars, threadVars>>

\* End of a chunk: a non-empty batch_results goes to
\* GameResultRepository.save_many (whatever it returns or raises is logged),
\* then the next chunk starts with an empty list.
SaveChunk ==
  /\ cpc = "save"
  /\ IF batch_results > 0
     THEN /\ SetSvc(SaveManyConnection(Svc))
          /\ chunk_saves' = Append(chunk_saves, batch_results)
     ELSE UNCHANGED <<shared_connection, batch_collection_active, raw_open, raw_made,
                      pool_used, collection_log, status_written, batch_upserts,
                      chunk_saves>>
  /\ batch_results' = 0
  /\ cpc' = IF stateIdx > total_states THEN "return" ELSE "start"
  /\ UNCHANGED <<stateIdx, max_days, current_date, days_processed, empty_days_count,
                 state_games_collected, retry_count, fetchLog, total_states, state_failed>>
  /\ UNCHANGED <<logOids, svc_calls, batch_depth, last_unit, records_appended>>
  /\ UNCHANGED <<upsertVars, jobVars, libVars, gameVars, threadVars>>

\* return of the summary, then the finally block: dispose_engine() disposes
\* the SQLAlchemy pool; it does not touch a connection that is checked out.
Finish ==
  /\ cpc = "return"
  /\ cpc' = "done"
  /\ UNCHANGED <<stateIdx, max_days, current_date, days_processed, empty_days_count,
                 state_games_collected, retry_count, fetchLog, total_states, batch_results,
                 state_failed>>
  /\ UNCHANGED <<upsertVars, svcVars, jobVars, libVars, gameVars, threadVars, handoffVars>>

\* ---------------------------------------------------- run_collection_job
\* What the arguments of run_collection_job select: an unparsable date_str,
\* state codes with date(s), state codes without a date (latest page), all
\* states for a week, all states for one date, all states' latest page.
Modes == {"bad_date", "states_date", "states_latest", "all_week", "all_date", "all_latest"}

\* nstates: len(state_codes), given or found by find_all; ndates:
\* len(dates_to_process).
JobArgs ==
  {a \in [mode : Modes, save_to_db : BOOLEAN, nstates : 0..MaxJobStates,
          ndates : 1..MaxJobDates] :
     /\ a.mode \in {"bad_date", "all_date"} => (a.nstates = 0 /\ a.ndates = 1)
     /\ a.mode \in {"states_date", "states_latest"} => a.nstates >= 1
     /\ a.mode \in {"states_latest", "all_latest"} => a.ndates = 1}

\* A summary dict: overall flag, counters, one entry per state.  An entry
\* keeps the success of every unit attempted for the state (date_results).
EmptyResults(success) ==
  [success |-> success, states_processed |-> 0, games_collected |-> 0,
   failures |-> 0, state_results |-> <<>>]

NoArgs == [mode |-> "bad_date", save_to_db |-> FALSE, nstates |-> 0, ndates |-> 1]

\* ------------------------------------------------------- Python values
\* A value is None, a str (a sequence of tokens) or a list of number strings.
PyNone == [type |-> "None", v |-> <<>>]

PyStr(s) == [type |-> "str", v |-> s]

PyList(l) == [type |-> "list", v |-> l]

\* bool(x): None, '' and [] are false.
Truthy(x) == x.type # "None" /\ x.v # <<>>

\* No function call is under study.
LibIdle ==
  /\ fpc = "idle"
  /\ fin = PyNone
  /\ fout = PyNone

\* GameRepository.save_many has not been called; both tables are empty.
GameIdle ==
  /\ games = {}
  /\ state_games = {}
  /\ nextGameId = 1
  /\ nextAssocId = 1
  /\ game_calls = 0
  /\ lastGames = <<>>
  /\ lastStateId = NULL
  /\ gamesBefore = {}
  /\ saved_games = <<>>
  /\ touched = {}

Threads == 1..NumThreads

NoOp == [op |-> "none", active |-> FALSE, thread |-> 0]

\* collect_historical_data has appended and saved nothing.
HandoffIdle ==
  /\ records_appended = 0
  /\ chunk_saves = <<>>

\* No thread is in a classmethod of the service.
ThreadIdle ==
  /\ lock_owner = 0
  /\ tpc = [t \in Threads |-> "idle"]
  /\ handed = {}
  /\ last_op = NoOp
  /\ thread_calls = 0

JobIdle ==
  /\ jpc = "idle"
  /\ job_args = NoArgs
  /\ code_idx = 1
  /\ date_idx = 1
  /\ state_date_results = <<>>
  /\ results = EmptyResults(FALSE)
  /\ all_states_result = EmptyResults(FALSE)
  /\ job_return = EmptyResults(FALSE)
  /\ outcome = "running"
  /\ finally_ran = FALSE

CrawlIdle ==
  /\ cpc = "idle"
  /\ stateIdx = 1
  /\ max_days = 0
  /\ current_date = 0
  /\ days_processed = 0
  /\ empty_days_count = 0
  /\ state_games_collected = 0
  /\ retry_count = 0
  /\ fetchLog = <<>>
  /\ total_states = 0
  /\ batch_results = 0
  /\ state_failed = {}

\* The service class as the module leaves it, an unused pool, an empty log.
SvcIdle ==
  /\ shared_connection = NoConn
  /\ batch_collection_active = FALSE
  /\ raw_open = {}
  /\ raw_made = 0
  /\ pool_used = 0
  /\ collection_log = <<>>
  /\ logOids = FALSE
  /\ status_written = {}
  /\ batch_upserts = <<>>
  /\ svc_calls = 0
  /\ batch_depth = 0
  /\ last_unit = NoUnit

UpsertIdle ==
  /\ rows = {}
  /\ nextId = 1
  /\ now = 1
  /\ locked = {}
  /\ hung = FALSE
  /\ uniqueIdx = FALSE
  /\ calls = 0
  /\ fresh = 0
  /\ reruns = 0
  /\ faults = 0
  /\ lastBatch = <<>>
  /\ prevBatch = <<>>
  /\ rowsBefore = {}
  /\ lastRet = EmptySummary
  /\ lastRerun = FALSE
  /\ lastFault = NoFault
  /\ lastRace = NoRace

\* collect_historical_data(max_days) with n states in storage.
CrawlStart(n) ==
  /\ UpsertIdle
  /\ SvcIdle
  /\ JobIdle
  /\ LibIdle
  /\ GameIdle
  /\ ThreadIdle
  /\ HandoffIdle
  /\ cpc = "start"
  /\ stateIdx = 1
  /\ current_date = 0
  /\ days_processed = 0
  /\ empty_days_count = 0
  /\ state_games_collected = 0
  /\ retry_count = 0
  /\ fetchLog = <<>>
  /\ total_states = n
  /\ batch_results = 0
  /\ state_failed = {}

CrawlInit ==
  /\ CrawlStart(NumStates)
  /\ max_days \in 0..MaxMaxDays

CrawlNext ==
  \/ StartState
  \/ Iterate
  \/ StateFailed
  \/ EndState
  \/ SaveChunk
  \/ Finish

CrawlSpec == CrawlInit /\ [][CrawlNext]_vars

\* collect_historical_data(max_days=MaxLongDays).
LongCrawlInit ==
  /\ CrawlStart(NumStates)
  /\ max_days = MaxLongDays

LongCrawlSpec == LongCrawlInit /\ [][CrawlNext]_vars

\* The job is a sequential program: it always takes its next step.
CrawlFairSpec == CrawlSpec /\ WF_vars(CrawlNext)

\* The same job with one state more than a chunk holds.
ChunkInit ==
  /\ CrawlStart(BATCH_SIZE + 1)
  /\ max_days \in 0..MaxChunkDays

ChunkSpec == ChunkInit /\ [][CrawlNext]_vars

\* ---------------------------------------- clients of GameCollectorService
\* The crawl units a client can ask for in service state s, over what the
\* state lookup, the site, the engine and the log INSERT come to.
Units(s) ==
  LET Inputs == [known : BOOLEAN, save_to_db : BOOLEAN, page : Pages,
                 raw_ok : BOOLEAN, log_fails : BOOLEAN]
  IN  {CollectGamesByState(s, i.known, i.save_to_db, i.page, i.raw_ok, i.log_fails) :
         i \in Inputs}
      \cup {CollectGamesByDate(s, TRUE, i.known, i.save_to_db, i.page, i.raw_ok, i.log_fails) :
              i \in Inputs}
      \cup {CollectGamesByDateWithStateData(s, i.save_to_db, i.page, i.raw_ok, i.log_fails) :
              i \in Inputs}

\* A client calls start_batch_collection.
StartBatch ==
  /\ svc_calls < MaxSvcCalls
  /\ SetSvc(StartBatchCollection(Svc))
  /\ batch_depth' = batch_depth + 1
  /\ svc_calls' = svc_calls + 1
  /\ UNCHANGED <<logOids, last_unit>>
  /\ UNCHANGED <<upsertVars, crawlVars, jobVars, libVars, gameVars, threadVars, handoffVars>>

\* A client calls end_batch_collection for a batch it started.
EndBatch ==
  /\ svc_calls < MaxSvcCalls
  /\ batch_depth > 0
  /\ SetSvc(EndBatchCollection(Svc))
  /\ batch_depth' = batch_depth - 1
  /\ svc_calls' = svc_calls + 1
  /\ UNCHANGED <<logOids, last_unit>>
  /\ UNCHANGED <<upsertVars, crawlVars, jobVars, libVars, gameVars, threadVars, handoffVars>>

\* A client runs one crawl unit.
CollectUnit ==
  /\ svc_calls < MaxSvcCalls
  /\ \E r \in Units(Svc) :
       /\ SetSvc(r.svc)
       /\ last_unit' = r.unit
  /\ svc_calls' = svc_calls + 1
  /\ UNCHANGED <<logOids, batch_depth>>
  /\ UNCHANGED <<upsertVars, crawlVars, jobVars, libVars, gameVars, threadVars, handoffVars>>

\* A client calls _release_shared_connection.
ReleaseShared ==
  /\ svc_calls < MaxSvcCalls
  /\ SetSvc(ReleaseSharedConnection(Svc))
  /\ svc_calls' = svc_calls + 1
  /\ UNCHANGED <<logOids, batch_depth, last_unit>>
  /\ UNCHANGED <<upsertVars, crawlVars, jobVars, libVars, gameVars, threadVars, handoffVars>>

\* The service before its first call; the server may or may not give the
\* rows of collection_log OIDs.
ServiceInit ==
  /\ UpsertIdle
  /\ CrawlIdle
  /\ JobIdle
  /\ LibIdle
  /\ GameIdle
  /\ ThreadIdle
  /\ HandoffIdle
  /\ shared_connection = NoConn
  /\ batch_collection_active = FALSE
  /\ raw_open = {}
  /\ raw_made = 0
  /\ pool_used = 0
  /\ collection_log = <<>>
  /\ logOids \in BOOLEAN
  /\ status_written = {}
  /\ batch_upserts = <<>>
  /\ svc_calls = 0
  /\ batch_depth = 0
  /\ last_unit = NoUnit

ServiceNext ==
  \/ StartBatch
  \/ EndBatch
  \/ CollectUnit
  \/ ReleaseShared

ServiceSpec == ServiceInit /\ [][ServiceNext]_vars

\* ----------------------------------- shared connection, several threads
ThreadOps == {"get", "release", "start", "end"}

\* `with cls._connection_lock:` of one of the four classmethods: the thread
\* enters when the lock is free.
Acquire(t) ==
  /\ thread_calls < MaxThreadCalls
  /\ tpc[t] = "idle"
  /\ lock_owner = 0
  /\ \E op \in ThreadOps :
       /\ op = "end" => batch_depth > 0
       /\ tpc' = [tpc EXCEPT ![t] = op]
  /\ lock_owner' = t
  /\ thread_calls' = thread_calls + 1
  /\ UNCHANGED <<handed, last_op>>
  /\ UNCHANGED <<upsertVars, crawlVars, svcVars, jobVars, libVars, gameVars, handoffVars>>

\* The thread leaves the with block.
Leave(t, op) ==
  /\ lock_owner' = 0
  /\ tpc' = [tpc EXCEPT ![t] = "idle"]
  /\ last_op' = [op |-> op, active |-> batch_collection_active, thread |-> t]
  /\ UNCHANGED thread_calls
  /\ UNCHANGED <<logOids, svc_calls, last_unit>>
  /\ UNCHANGED <<upsertVars, crawlVars, jobVars, libVars, gameVars, handoffVars>>

\* Body of _get_shared_connection.
GetBody(t) ==
  /\ lock_owner = t
  /\ tpc[t] = "get"
  /\ \E raw_ok \in BOOLEAN :
       LET s == GetSharedConnection(Svc, raw_ok)
       IN  /\ SetSvc(s)
           /\ handed' = IF s.shared = NoConn THEN handed ELSE handed \cup {s.shared}
  /\ UNCHANGED batch_depth
  /\ Leave(t, "get")

\* Body of _release_shared_connection.
ReleaseBody(t) ==
  /\ lock_owner = t
  /\ tpc[t] = "release"
  /\ LET s == ReleaseSharedConnection(Svc)
     IN  /\ SetSvc(s)
         /\ handed' = IF s.shared = NoConn THEN {} ELSE handed
  /\ UNCHANGED batch_depth
  /\ Leave(t, "release")

\* Body of start_batch_collection.
StartBody(t) ==
  /\ lock_owner = t
  /\ tpc[t] = "start"
  /\ SetSvc(StartBatchCollection(Svc))
  /\ batch_depth' = batch_depth + 1
  /\ UNCHANGED handed
  /\ Leave(t, "start")

\* Body of end_batch_collection.
EndBody(t) ==
  /\ lock_owner = t
  /\ tpc[t] = "end"
  /\ SetSvc(EndBatchCollection(Svc))
  /\ batch_depth' = batch_depth - 1
  /\ handed' = {}
  /\ Leave(t, "end")

ThreadInit ==
  /\ UpsertIdle
  /\ CrawlIdle
  /\ SvcIdle
  /\ JobIdle
  /\ LibIdle
  /\ GameIdle
  /\ ThreadIdle
  /\ HandoffIdle

ThreadNext ==
  \E t \in Threads :
    \/ Acquire(t)
    \/ GetBody(t)
    \/ ReleaseBody(t)
    \/ StartBody(t)
    \/ EndBody(t)

ThreadSpec == ThreadInit /\ [][ThreadNext]_vars

\* -------------------------------------------- run_collection_job, steps
HasDates == job_args.mode \in {"states_date", "all_week"}

\* Calls of the service made for one state.
UnitsPerState == IF HasDates THEN job_args.ndates ELSE 1

\* run_collection_job itself brackets the dates of a state in a batch.
BatchPerState == job_args.mode = "states_date" /\ job_args.ndates > 1

\* One batch brackets all states: run_collection_job's for the week of all
\* states, collect_all_states' own.
BatchPerJob == job_args.mode \in {"all_week", "all_latest"}

RECURSIVE SumGames(_)
SumGames(rs) ==
  IF rs = <<>> THEN 0
  ELSE (IF Head(rs).success THEN Head(rs).games_collected ELSE 0) + SumGames(Tail(rs))

Successes(rs) == [i \in 1..Len(rs) |-> rs[i].success]

\* collect_all_states' overall flag with any failure counted as failure of the whole.
OverallSuccessNoFailures(failures, nstates) ==
  failures = 0

\* collect_all_states: `if results["failures"]:
\*   results["success"] = len(results["failures"]) < len(state_codes)`.
OverallSuccess(failures, nstates) ==
  IF failures > 0 THEN failures < nstates ELSE TRUE

\* state_date_results: one entry per date, with the count of a successful one.
DateResults(rs) ==
  [i \in 1..Len(rs) |->
     IF rs[i].success
     THEN [success |-> TRUE, games_collected |-> rs[i].games_collected]
     ELSE [success |-> FALSE]]

\* The per-state counter assigned, not added to, for each successful date.
AddStateLastDate(r, success, rs) ==
  LET ok == SelectSeq(rs, LAMBDA x : x.success)
      last_count == IF ok = <<>> THEN 0 ELSE ok[Len(ok)].games_collected
  IN  [r EXCEPT !.states_processed = @ + 1,
                !.games_collected = @ + last_count,
                !.state_results = Append(@, [success |-> success,
                                             games_collected |-> last_count,
                                             units |-> Successes(rs),
                                             date_results |-> IF HasDates THEN DateResults(rs)
                                                              ELSE <<>>])]

\* The entry of a state in state_results and the counters, after all units
\* of the state.
AddState(r, success, rs) ==
  [r EXCEPT !.states_processed = @ + 1,
            !.games_collected = @ + SumGames(rs),
            !.state_results = Append(@, [success |-> success,
                                         games_collected |-> SumGames(rs),
                                         units |-> Successes(rs),
                                         date_results |-> IF HasDates THEN DateResults(rs)
                                                          ELSE <<>>])]

\* collect_all_states after one state: a failed state goes to `failures`.
AddStateAll(r, rs) ==
  LET ok == rs[1].success
  IN  [AddState(r, ok, rs) EXCEPT !.failures = IF ok THEN @ ELSE @ + 1]

\* The finally block of run_collection_job.
JobFinally(s) ==
  /\ SetSvc(ReleaseSharedConnection(s))
  /\ finally_ran' = TRUE
  /\ jpc' = "done"

\* The early returns: date_str does not parse; all states with one date.
EarlyReturn ==
  /\ jpc = "start"
  /\ job_args.mode \in {"bad_date", "all_date"}
  /\ job_return' = EmptyResults(FALSE)
  /\ outcome' = "returned"
  /\ JobFinally(Svc)
  /\ UNCHANGED <<job_args, code_idx, date_idx, state_date_results, results, all_states_result>>
  /\ UNCHANGED <<logOids, svc_calls, batch_depth, last_unit>>
  /\ UNCHANGED <<upsertVars, crawlVars, libVars, gameVars, threadVars, handoffVars>>

\* results = {"success": True, ...}; for all states the batch starts here.
BeginJob ==
  /\ jpc = "start"
  /\ job_args.mode \notin {"bad_date", "all_date"}
  /\ results' = EmptyResults(TRUE)
  /\ all_states_result' = IF job_args.mode = "all_latest"
                          THEN EmptyResults(TRUE) ELSE all_states_result
  /\ SetSvc(IF BatchPerJob THEN StartBatchCollection(Svc) ELSE Svc)
  /\ code_idx' = 1
  /\ jpc' = "state"
  /\ UNCHANGED <<job_args, date_idx, state_date_results, job_return, outcome, finally_ran>>
  /\ UNCHANGED <<logOids, svc_calls, batch_depth, last_unit>>
  /\ UNCHANGED <<upsertVars, crawlVars, libVars, gameVars, threadVars, handoffVars>>

\* for code in state_codes: the per-state initialisation.
BeginState ==
  /\ jpc = "state"
  /\ code_idx <= job_args.nstates
  /\ state_date_results' = <<>>
  /\ date_idx' = 1
  /\ SetSvc(IF BatchPerState THEN StartBatchCollection(Svc) ELSE Svc)
  /\ jpc' = "unit"
  /\ UNCHANGED <<job_args, code_idx, results, all_states_result, job_return, outcome,
                 finally_ran>>
  /\ UNCHANGED <<logOids, svc_calls, batch_depth, last_unit>>
  /\ UNCHANGED <<upsertVars, crawlVars, libVars, gameVars, threadVars, handoffVars>>

\* One call of collect_games_by_date / collect_games_by_state.  Codes given
\* by the caller may be unknown; codes from find_all are known.  An
\* exception that leaves the service leaves the loops.
JobUnit ==
  /\ jpc = "unit"
  /\ date_idx <= UnitsPerState
  /\ \E known \in (IF job_args.mode \in {"states_date", "states_latest"}
                   THEN BOOLEAN ELSE {TRUE}),
        page \in Pages, raw_ok \in BOOLEAN, log_fails \in BOOLEAN :
       LET r == IF HasDates
                THEN CollectGamesByDate(Svc, TRUE, known, job_args.save_to_db, page,
                                        raw_ok, log_fails)
                ELSE CollectGamesByState(Svc, known, job_args.save_to_db, page,
                                         raw_ok, log_fails)
       IN  /\ SetSvc(r.svc)
           /\ last_unit' = r.unit
           /\ IF r.unit.raised
              THEN /\ jpc' = "raise"
                   /\ UNCHANGED <<date_idx, state_date_results>>
              ELSE /\ jpc' = "unit"
                   /\ date_idx' = date_idx + 1
                   /\ state_date_results' = Append(state_date_results, r.unit.result)
  /\ UNCHANGED <<job_args, code_idx, results, all_states_result, job_return, outcome,
                 finally_ran>>
  /\ UNCHANGED <<logOids, svc_calls, batch_depth>>
  /\ UNCHANGED <<upsertVars, crawlVars, libVars, gameVars, threadVars, handoffVars>>

\* After the units of a state: the inner finally, the counters and the
\* state's entry.  With dates the entry says "success": True; for the latest
\* page it copies the flag of the fetch.
EndOfState ==
  /\ jpc = "unit"
  /\ date_idx > UnitsPerState
  /\ SetSvc(IF BatchPerState THEN EndBatchCollection(Svc) ELSE Svc)
  /\ IF job_args.mode = "all_latest"
     THEN /\ all_states_result' = AddStateAll(all_states_result, state_date_results)
          /\ UNCHANGED results
     ELSE /\ results' = AddState(results,
                                 IF HasDates THEN TRUE ELSE state_date_results[1].success,
                                 state_date_results)
          /\ UNCHANGED all_states_result
  /\ code_idx' = code_idx + 1
  /\ jpc' = "state"
  /\ UNCHANGED <<job_args, date_idx, state_date_results, job_return, outcome, finally_ran>>
  /\ UNCHANGED <<logOids, svc_calls, batch_depth, last_unit>>
  /\ UNCHANGED <<upsertVars, crawlVars, libVars, gameVars, threadVars, handoffVars>>

\* After the last state: the batch of all states ends; collect_all_states
\* sets its overall flag and returns, and run_collection_job copies
\* states_processed, games_collected and state_results from it.
EndStates ==
  /\ jpc = "state"
  /\ code_idx > job_args.nstates
  /\ SetSvc(IF BatchPerJob THEN EndBatchCollection(Svc) ELSE Svc)
  /\ IF job_args.mode = "all_latest"
     THEN LET a == [all_states_result EXCEPT
                      !.success = OverallSuccess(all_states_result.failures,
                                                 job_args.nstates)]
          IN  /\ all_states_result' = a
              /\ results' = [results EXCEPT !.states_processed = a.states_processed,
                                            !.games_collected = a.games_collected,
                                            !.state_results = a.state_results]
     ELSE UNCHANGED <<results, all_states_result>>
  /\ jpc' = "return"
  /\ UNCHANGED <<job_args, code_idx, date_idx, state_date_results, job_return, outcome,
                 finally_ran>>
  /\ UNCHANGED <<logOids, svc_calls, batch_depth, last_unit>>
  /\ UNCHANGED <<upsertVars, crawlVars, libVars, gameVars, threadVars, handoffVars>>

\* return results, through the finally block.
JobReturn ==
  /\ jpc = "return"
  /\ job_return' = results
  /\ outcome' = "returned"
  /\ JobFinally(Svc)
  /\ UNCHANGED <<job_args, code_idx, date_idx, state_date_results, results, all_states_result>>
  /\ UNCHANGED <<logOids, svc_calls, batch_depth, last_unit>>
  /\ UNCHANGED <<upsertVars, crawlVars, libVars, gameVars, threadVars, handoffVars>>

\* An exception on its way out: the finally blocks run (end of the batch,
\* release of the shared connection); no handler catches it, neither here
\* nor in main.
JobRaise ==
  /\ jpc = "raise"
  /\ outcome' = "raised"
  /\ JobFinally(IF BatchPerState \/ BatchPerJob THEN EndBatchCollection(Svc) ELSE Svc)
  /\ UNCHANGED <<job_args, code_idx, date_idx, state_date_results, results,
                 all_states_result, job_return>>
  /\ UNCHANGED <<logOids, svc_calls, batch_depth, last_unit>>
  /\ UNCHANGED <<upsertVars, crawlVars, libVars, gameVars, threadVars, handoffVars>>

\* run_collection_job is called; init_connection_pool has made the pool.
JobInit ==
  /\ UpsertIdle
  /\ CrawlIdle
  /\ SvcIdle
  /\ LibIdle
  /\ GameIdle
  /\ ThreadIdle
  /\ HandoffIdle
  /\ jpc = "start"
  /\ job_args \in JobArgs
  /\ code_idx = 1
  /\ date_idx = 1
  /\ state_date_results = <<>>
  /\ results = EmptyResults(FALSE)
  /\ all_states_result = EmptyResults(FALSE)
  /\ job_return = EmptyResults(FALSE)
  /\ outcome = "running"
  /\ finally_ran = FALSE

JobNext ==
  \/ EarlyReturn
  \/ BeginJob
  \/ BeginState
  \/ JobUnit
  \/ EndOfState
  \/ EndStates
  \/ JobReturn
  \/ JobRaise

JobSpec == JobInit /\ [][JobNext]_vars

Init ==
  /\ CrawlIdle
  /\ SvcIdle
  /\ JobIdle
  /\ LibIdle
  /\ GameIdle
  /\ ThreadIdle
  /\ HandoffIdle
  /\ rows = {}
  /\ nextId = 1
  /\ now = 1
  /\ locked = {}
  /\ hung = FALSE
  /\ uniqueIdx \in BOOLEAN
  /\ calls = 0
  /\ fresh = 0
  /\ reruns = 0
  /\ faults = 0
  /\ lastBatch = <<>>
  /\ prevBatch = <<>>
  /\ rowsBefore = {}
  /\ lastRet = EmptySummary
  /\ lastRerun = FALSE
  /\ lastFault = NoFault
  /\ lastRace = NoRace

Next ==
  \/ UpsertBatch
  \/ UpsertAgain

Spec == Init /\ [][Next]_vars

\* save_many while another writer (a second collector process, the backend)
\* commits a row of game_results.
\* save_many does not read state_id: one state stands for all.
RaceRecords == {r \in GameResults : r.state_id = 1}

RaceBatches == SeqsUpTo(RaceRecords, MaxBatch) \ {<<>>}

UpsertRacing ==
  /\ calls < MaxRaces
  /\ fresh < MaxRecords
  /\ \E game_results \in RaceBatches, rec \in RaceRecords,
        phase \in {"after_lookup", "after_check"} :
       /\ fresh + Len(game_results) <= MaxRecords
       /\ SaveManyRacing(game_results, FALSE, [phase |-> phase, rec |-> rec])

RaceSpec == Init /\ [][UpsertRacing]_vars

\* ------------------------------------------------- numbers: round trip
\* The number strings of a draw and the lists of them a page can give.
NumberStrings == {"1", "2", "10"}

NumberLists == SeqsUpTo(NumberStrings, MaxListLen)

\* json.dumps of a list of strings: '["1", "2"]' as a token sequence.
RECURSIVE JsonItems(_)
JsonItems(l) ==
  IF l = <<>> THEN <<>>
  ELSE IF Len(l) = 1 THEN <<l[1]>>
  ELSE <<l[1], ",">> \o JsonItems(Tail(l))

JsonDumps(l) == <<"[">> \o JsonItems(l) \o <<"]">>

\* json.loads of such a text: the items between the brackets.
JsonLoads(s) ==
  LET inner == SubSeq(s, 2, Len(s) - 1)
  IN  [i \in 1..((Len(inner) + 1) \div 2) |-> inner[2 * i - 1]]

\* GameResult.__init__, numbers: a str is kept; anything else becomes
\* json.dumps(numbers) if numbers else "".
GameResultNumbers(numbers) ==
  IF numbers.type = "str" THEN numbers
  ELSE IF Truthy(numbers) THEN PyStr(JsonDumps(numbers.v))
  ELSE PyStr(<<>>)

\* save_many, numbers_json: the value bound to the numbers column.
NumbersJson(numbers_str) ==
  IF numbers_str.type = "str" THEN numbers_str
  ELSE IF Truthy(numbers_str) THEN PyStr(JsonDumps(numbers_str.v))
  ELSE PyNone

\* What find_by_id raises: connection.cursor(dictionary=True) is a TypeError
\* on a psycopg2 connection; `except Error` does not catch it and the
\* finally block then fails on the unbound name `cursor`.
Raised == [type |-> "raised", v |-> <<>>]

\* psycopg2's connection.cursor has no keyword `dictionary`.
CursorTakesDictionary == FALSE

\* find_by_id, numbers of the row read.
FindById(stored) ==
  IF ~CursorTakesDictionary THEN Raised
  ELSE GameResultNumbers(IF Truthy(stored) THEN PyList(JsonLoads(stored.v)) ELSE PyNone)

\* GameResult(numbers=L).
Construct ==
  /\ fpc = "new"
  /\ fout' = GameResultNumbers(fin)
  /\ fpc' = "made"
  /\ UNCHANGED fin
  /\ UNCHANGED <<upsertVars, crawlVars, svcVars, jobVars, gameVars, threadVars, handoffVars>>

\* save_many([game_result]): the INSERT binds numbers_json.
Store ==
  /\ fpc = "made"
  /\ fout' = NumbersJson(fout)
  /\ fpc' = "stored"
  /\ UNCHANGED fin
  /\ UNCHANGED <<upsertVars, crawlVars, svcVars, jobVars, gameVars, threadVars, handoffVars>>

\* find_by_id(id) of the row.
ReadBack ==
  /\ fpc = "stored"
  /\ fout' = FindById(fout)
  /\ fpc' = "read"
  /\ UNCHANGED fin
  /\ UNCHANGED <<upsertVars, crawlVars, svcVars, jobVars, gameVars, threadVars, handoffVars>>

NumbersInit ==
  /\ UpsertIdle
  /\ CrawlIdle
  /\ SvcIdle
  /\ JobIdle
  /\ fpc = "new"
  /\ fin \in {PyList(l) : l \in NumberLists}
  /\ fout = PyNone
  /\ GameIdle
  /\ ThreadIdle
  /\ HandoffIdle

NumbersNext ==
  \/ Construct
  \/ Store
  \/ ReadBack

NumbersSpec == NumbersInit /\ [][NumbersNext]_vars

\* ------------------------------------------------- games: save_many
Slugs == 1..MaxSlug

GameNames == 1..MaxGameName

\* A Game as collect_games_by_date builds it: no id yet.  `name` stands for
\* the columns the UPDATE sets (name, logo_url).
GameObjects == [id : {NULL}, name : GameNames, slug : Slugs]

GameLists == SeqsUpTo(GameObjects, MaxGames)

\* SELECT id, slug FROM games WHERE slug IN (...) read into a dict keyed by
\* slug.  With several rows of one slug the row fetched last stays, and the
\* SELECT has no ORDER BY: any of them.
SlugToId(table, slugs) ==
  LET found == {s \in slugs : \E r \in table : r.slug = s}
  IN  {f \in [found -> {r.id : r \in table}] :
         \A s \in found : \E r \in table : r.slug = s /\ r.id = f[s]}

\* game.id = ids[game.slug] for the games whose slug is in the dict.
WithId(list, ids) ==
  [i \in DOMAIN list |->
     IF list[i].slug \in DOMAIN ids THEN [list[i] EXCEPT !.id = ids[list[i].slug]]
     ELSE list[i]]

\* executemany INSERT INTO games: one row per element of the list.
InsertGames(table, list, id0) ==
  table \cup {[id |-> id0 + i - 1, name |-> list[i].name, slug |-> list[i].slug] :
                i \in DOMAIN list}

\* executemany UPDATE games SET name, logo_url WHERE id: in list order.
RECURSIVE UpdateGames(_, _)
UpdateGames(table, list) ==
  IF list = <<>> THEN table
  ELSE UpdateGames({IF r.id = list[1].id THEN [r EXCEPT !.name = list[1].name] ELSE r :
                      r \in table},
                   Tail(list))

\* The state association: for each element of game_ids, in order, the pair
\* is appended when the SELECT done before did not find it.
AssociationsToCreate(table, state_id, game_ids) ==
  LET existing_associations ==
        {r.game_id : r \in {x \in table : x.state_id = state_id /\
                                          \E i \in DOMAIN game_ids : x.game_id = game_ids[i]}}
      Missing(game_id) == game_id \notin existing_associations
  IN  SelectSeq(game_ids, Missing)

InsertAssociations(table, state_id, list, id0) ==
  table \cup {[id |-> id0 + i - 1, state_id |-> state_id, game_id |-> list[i]] :
                i \in DOMAIN list}

\* GameRepository.save_many(games, state_id).
GameSaveMany(gs, state_id, connected) ==
  /\ game_calls' = game_calls + 1
  /\ lastGames' = gs
  /\ lastStateId' = state_id
  /\ gamesBefore' = games
  /\ IF ~connected \/ gs = <<>>
     THEN /\ saved_games' = <<>>
          /\ UNCHANGED <<games, state_games, nextGameId, nextAssocId, touched>>
     ELSE \E existing_games \in SlugToId(games, {gs[i].slug : i \in DOMAIN gs}) :
            LET IsNew(game) == game.slug \notin DOMAIN existing_games
                IsOld(game) == game.slug \in DOMAIN existing_games
                games_to_insert == SelectSeq(gs, IsNew)
                inserted == InsertGames(games, games_to_insert, nextGameId)
            IN  \E new_game_ids \in
                     SlugToId(inserted, {games_to_insert[i].slug : i \in DOMAIN games_to_insert}) :
                  LET ids == [s \in DOMAIN existing_games \cup DOMAIN new_game_ids |->
                                IF s \in DOMAIN existing_games THEN existing_games[s]
                                ELSE new_game_ids[s]]
                      all == WithId(gs, ids)
                      games_to_update == SelectSeq(all, IsOld)
                      HasId(game) == game.id # NULL
                      with_id == SelectSeq(all, HasId)
                      game_ids == [i \in DOMAIN with_id |-> with_id[i].id]
                      to_create == IF state_id = NULL THEN <<>>
                                   ELSE AssociationsToCreate(state_games, state_id, game_ids)
                      ret == SelectSeq(all, IsNew) \o games_to_update
                  IN  /\ games' = UpdateGames(inserted, games_to_update)
                      /\ nextGameId' = nextGameId + Len(games_to_insert)
                      /\ state_games' = InsertAssociations(state_games, state_id, to_create,
                                                           nextAssocId)
                      /\ nextAssocId' = nextAssocId + Len(to_create)
                      /\ saved_games' = ret
                      /\ touched' = touched \cup
                                    (IF state_id = NULL THEN {}
                                     ELSE {<<state_id, ret[i].id>> : i \in DOMAIN ret})
  /\ UNCHANGED <<upsertVars, crawlVars, svcVars, jobVars, libVars, threadVars, handoffVars>>

SaveGames ==
  /\ game_calls < MaxGameCalls
  /\ \E gs \in GameLists, state_id \in {NULL} \cup StateIds, connected \in BOOLEAN :
       GameSaveMany(gs, state_id, connected)

GameInit ==
  /\ UpsertIdle
  /\ CrawlIdle
  /\ SvcIdle
  /\ JobIdle
  /\ LibIdle
  /\ GameIdle
  /\ ThreadIdle
  /\ HandoffIdle

GameSpec == GameInit /\ [][SaveGames]_vars

\* ------------------------------------------ multi-state classification
\* Names are sequences of words; `a in b` is the test of Contains.
MULTI_STATE_GAMES ==
  { <<"Powerball">>, <<"Mega", "Millions">>, <<"Lucky", "for", "Life">>,
    <<"Cash4Life">>, <<"Lotto", "America">>, <<"2by2">>, <<"Tri-State">> }

\* The words a game title is made of here.
NameWords == {"Powerball", "POWERBALL", "Mega", "Millions", "MILLIONS", "2by2", "Pick", "3"}

GameTitles == SeqsUpTo(NameWords, MaxNameWords) \ {<<>>}

\* str.lower() of a word.
LowerWord(w) ==
  CASE w = "Powerball" -> "powerball"
    [] w = "POWERBALL" -> "powerball"
    [] w = "Mega"      -> "mega"
    [] w = "Millions"  -> "millions"
    [] w = "MILLIONS"  -> "millions"
    [] w = "Lucky"     -> "lucky"
    [] w = "Life"      -> "life"
    [] w = "Cash4Life" -> "cash4life"
    [] w = "Lotto"     -> "lotto"
    [] w = "America"   -> "america"
    [] w = "Tri-State" -> "tri-state"
    [] w = "Pick"      -> "pick"
    [] OTHER           -> w

Lower(text) == [i \in DOMAIN text |-> LowerWord(text[i])]

\* collect_games_by_state, before Game(...): mg_name.lower() in game_name.lower().
IsMultiStateAtBuild(game_name) ==
  \E mg_name \in MULTI_STATE_GAMES : Contains(Lower(game_name), Lower(mg_name))

\* collect_games_by_state, choice of result_key: multi_name in game.name.
IsMultiStateForKey(game_name) ==
  \E multi_name \in MULTI_STATE_GAMES : Contains(game_name, multi_name)

\* save_many, for the lookup clauses and for every incoming record.
IsMultiStateInSaveMany(game_name) == FALSE

Class(is_multi_state) == IF is_multi_state THEN "multi" ELSE "regular"

NotClassified == [build |-> "none", key |-> "none", save |-> "none"]

ClassifyAtBuild ==
  /\ fpc = "classify"
  /\ fout.build = "none"
  /\ fout' = [fout EXCEPT !.build = Class(IsMultiStateAtBuild(fin))]
  /\ UNCHANGED <<fpc, fin>>
  /\ UNCHANGED <<upsertVars, crawlVars, svcVars, jobVars, gameVars, threadVars, handoffVars>>

ClassifyForKey ==
  /\ fpc = "classify"
  /\ fout.key = "none"
  /\ fout' = [fout EXCEPT !.key = Class(IsMultiStateForKey(fin))]
  /\ UNCHANGED <<fpc, fin>>
  /\ UNCHANGED <<upsertVars, crawlVars, svcVars, jobVars, gameVars, threadVars, handoffVars>>

ClassifyInSaveMany ==
  /\ fpc = "classify"
  /\ fout.save = "none"
  /\ fout' = [fout EXCEPT !.save = Class(IsMultiStateInSaveMany(fin))]
  /\ UNCHANGED <<fpc, fin>>
  /\ UNCHANGED <<upsertVars, crawlVars, svcVars, jobVars, gameVars, threadVars, handoffVars>>

ClassInit ==
  /\ UpsertIdle
  /\ CrawlIdle
  /\ SvcIdle
  /\ JobIdle
  /\ GameIdle
  /\ ThreadIdle
  /\ HandoffIdle
  /\ fpc = "classify"
  /\ fin \in GameTitles
  /\ fout = NotClassified

ClassNext ==
  \/ ClassifyAtBuild
  \/ ClassifyForKey
  \/ ClassifyInSaveMany

ClassSpec == ClassInit /\ [][ClassNext]_vars

\* ------------------------------------------------- round_time_to_5min
PyTime(h, m, sec) == [type |-> "time", v |-> <<h, m, sec>>]

SecondsTried == {0} \cup {29 + k : k \in 1..MaxSecond} \cup {60 - k : k \in 1..MaxSecond}

TimesOfDay == {PyTime(h, m, sec) : h \in 0..MaxHour, m \in 0..MaxMinute, sec \in SecondsTried}

\* round(minutes / 5) * 5: minutes is an int, so minutes / 5 is never
\* halfway between two integers and round() takes the nearest one.
RoundedMinutes(minutes) ==
  IF 2 * (minutes % 5) < 5 THEN (minutes \div 5) * 5 ELSE (minutes \div 5 + 1) * 5

round_time_to_5min(t) ==
  IF t.type = "None" THEN PyNone
  ELSE LET minutes         == t.v[1] * 60 + t.v[2]
           rounded_minutes == RoundedMinutes(minutes)
           rounded_hour    == rounded_minutes \div 60
           rounded_minute  == rounded_minutes % 60
       IN  PyTime(IF rounded_hour = 24 THEN 0 ELSE rounded_hour, rounded_minute, 0)

\* GameResult.__init__: self.draw_time / self.next_draw_time for an
\* argument that is a time or None (a time object is always true).
GameResultTime(draw_time) ==
  IF draw_time.type = "time" THEN round_time_to_5min(draw_time) ELSE PyNone

\* round_time_to_5min(t).
RoundTime ==
  /\ fpc = "time"
  /\ fout' = round_time_to_5min(fin)
  /\ fpc' = "rounded"
  /\ UNCHANGED fin
  /\ UNCHANGED <<upsertVars, crawlVars, svcVars, jobVars, gameVars, threadVars, handoffVars>>

\* GameResult(draw_time=t) or GameResult(next_draw_time=t).
HoldTime ==
  /\ fpc = "time"
  /\ fout' = GameResultTime(fin)
  /\ fpc' = "held"
  /\ UNCHANGED fin
  /\ UNCHANGED <<upsertVars, crawlVars, svcVars, jobVars, gameVars, threadVars, handoffVars>>

\* The time held is handed to round_time_to_5min once more, as when a
\* stored row is read back into a GameResult.
RoundAgain ==
  /\ fpc \in {"rounded", "held"}
  /\ fout' = GameResultTime(fout)
  /\ fpc' = "again"
  /\ UNCHANGED fin
  /\ UNCHANGED <<upsertVars, crawlVars, svcVars, jobVars, gameVars, threadVars, handoffVars>>

TimeInit ==
  /\ UpsertIdle
  /\ CrawlIdle
  /\ SvcIdle
  /\ JobIdle
  /\ GameIdle
  /\ ThreadIdle
  /\ HandoffIdle
  /\ fpc = "time"
  /\ fin \in TimesOfDay \cup {PyNone}
  /\ fout = PyNone

TimeNext ==
  \/ RoundTime
  \/ HoldTime
  \/ RoundAgain

TimeSpec == TimeInit /\ [][TimeNext]_vars

\* ================================================================ claims
Returned == calls > 0 /\ ~hung

SameKey(a, b) ==
  /\ a.game_id = b.game_id
  /\ a.draw_date = b.draw_date
  /\ a.draw_time = b.draw_time

DistinctKeys(batch) ==
  \A i, j \in 1..Len(batch) : i # j => ~SameKey(batch[i], batch[j])

RowsOfDate(db, gr) ==
  {r \in db : r.game_id = gr.game_id /\ r.draw_date = gr.draw_date}

RowsOf(db, gr) == RowsWithKey(db, gr.game_id, gr.draw_date, gr.draw_time)

\* C1 - Idempotent upsert: when save_many is called a second time with the
\* record set of the call before it (records with pairwise different
\* identity keys, no write failure, no other writer), the second call
\* reports inserted = 0 and updated = 0.
IdempotentUpsert ==
  (Returned /\ lastRerun /\ faults = 0 /\ DistinctKeys(lastBatch))
    => (lastRet.inserted = 0 /\ lastRet.updated = 0)

\* C2 - Row uniqueness: after any sequence of save_many calls game_results
\* holds at most one row per (game_id, draw_date, draw_time-or-null).
RowUniqueness ==
  \A r1, r2 \in rows : SameKey(r1, r2) => r1.id = r2.id

\* Two sightings of one draw that differ in nothing but the state.
SameDrawOtherState(a, b) ==
  /\ SameKey(a, b)
  /\ a.numbers = b.numbers
  /\ a.jackpot = b.jackpot
  /\ a.state_id # b.state_id

\* C3 - Multi-jurisdiction non-duplication: two records of one game and
\* draw date with identical numbers/jackpot but different state_id, upserted
\* into an empty table in one batch or in two successive batches, leave
\* exactly one row for that (game_id, draw_date), and the second record is
\* reported unchanged.
MultiJurisdictionNonDuplication ==
  /\ (Returned /\ faults = 0 /\ calls = 1 /\ Len(lastBatch) = 2
        /\ SameDrawOtherState(lastBatch[1], lastBatch[2]))
       => /\ Cardinality(RowsOfDate(rows, lastBatch[1])) = 1
          /\ lastRet.unchanged = 1
  /\ (Returned /\ faults = 0 /\ calls = 2 /\ ~lastRerun
        /\ Len(prevBatch) = 1 /\ Len(lastBatch) = 1
        /\ SameDrawOtherState(prevBatch[1], lastBatch[1]))
       => /\ Cardinality(RowsOfDate(rows, lastBatch[1])) = 1
          /\ lastRet.unchanged = 1

\* Two draws of one game on one date at two different (non-null) times.
SameDateOtherTime(a, b) ==
  /\ a.game_id = b.game_id
  /\ a.draw_date = b.draw_date
  /\ a.draw_time # NULL
  /\ b.draw_time # NULL
  /\ a.draw_time # b.draw_time

\* C4 - Jurisdiction-scoped independence: two records with the same game_id
\* and draw_date but different draw_time each end up with a stored row of
\* their own, upserted in one call or in two successive calls.
JurisdictionScopedIndependence ==
  /\ (Returned /\ faults = 0 /\ calls = 1 /\ Len(lastBatch) = 2
        /\ SameDateOtherTime(lastBatch[1], lastBatch[2]))
       => /\ RowsOf(rows, lastBatch[1]) # {}
          /\ RowsOf(rows, lastBatch[2]) # {}
  /\ (Returned /\ faults = 0 /\ calls = 2 /\ ~lastRerun
        /\ Len(prevBatch) = 1 /\ Len(lastBatch) = 1
        /\ SameDateOtherTime(prevBatch[1], lastBatch[1]))
       => /\ RowsOf(rows, prevBatch[1]) # {}
          /\ RowsOf(rows, lastBatch[1]) # {}

\* C5 - Update-on-change: a single record whose identity key matches the one
\* stored row of its date and whose numbers differ is reported as
\* updated = 1, inserted = 0, and a read after the call finds the same row
\* id with the new numbers and a later collected_at.
UpdateOnChange ==
  (Returned /\ faults = 0 /\ Len(lastBatch) = 1)
    => \A r \in rowsBefore :
         (/\ RowsOfDate(rowsBefore, lastBatch[1]) = {r}
          /\ SameKey(r, lastBatch[1])
          /\ r.numbers # lastBatch[1].numbers)
           => /\ lastRet.updated = 1
              /\ lastRet.inserted = 0
              /\ \E q \in rows : /\ q.id = r.id
                                 /\ q.numbers = lastBatch[1].numbers
                                 /\ q.collected_at > r.collected_at

\* C6 - Upsert guarantee: after save_many returns (no write failure
\* injected) every input record has exactly one stored row with its
\* game_id, draw_date and draw_time.
UpsertGuarantee ==
  (Returned /\ faults = 0)
    => \A i \in 1..Len(lastBatch) : Cardinality(RowsOf(rows, lastBatch[i])) = 1

\* A fetch that yielded zero records: a successful result with
\* games_collected = 0, or a 'No games found' result.
ZeroRecords(result) ==
  \/ result.success /\ result.games_collected = 0
  \/ ~result.success /\ Contains(result.message, <<"No", "games", "found">>)

\* C7 - Empty-first-day termination: a state whose first examined date
\* yields zero records performs exactly one fetch and then leaves its date
\* loop.
EmptyFirstDayTermination ==
  (cpc = "loop" /\ Len(fetchLog) >= 1 /\ ZeroRecords(fetchLog[1].result))
    => (Len(fetchLog) = 1 /\ ~LoopGuard)

TransportError(result) == ~result.success /\ result.http = 0

FetchesOf(d) == Cardinality({i \in 1..Len(fetchLog) : fetchLog[i].date = d})

\* C9 - Transport-error retry: after a fetch failed with a transport error,
\* the loop does not move to another date before the same date has been
\* fetched MAX_RETRIES times, and the date is then counted as one empty day.
TransportErrorRetry ==
  \A i \in 1..Len(fetchLog) :
    (TransportError(fetchLog[i].result) /\ i < Len(fetchLog))
      => \/ fetchLog[i + 1].date = fetchLog[i].date
         \/ /\ FetchesOf(fetchLog[i].date) = MAX_RETRIES
            /\ fetchLog[i].empty_after = fetchLog[i].empty_before + 1

\* C10 - Server-error skip: a fetch answered with an upstream server error
\* (500, 503, 429) is fetched exactly once and adds exactly 1 to
\* empty_days_count.
ServerErrorSkip ==
  \A i \in 1..Len(fetchLog) :
    fetchLog[i].result.http \in HttpStatuses
      => /\ FetchesOf(fetchLog[i].date) = 1
         /\ fetchLog[i].empty_after = fetchLog[i].empty_before + 1

\* The result the 'not found in database' branch of the date loop is for.
StateNotFoundResult ==
  [success |-> FALSE, games_collected |-> 0, message |-> StateNotFoundMessage,
   http |-> 200, raises |-> FALSE]

\* The loop condition on the counters c.
GuardOn(c) == c.days_processed < max_days /\ c.empty_days_count < MAX_EMPTY_DAYS

\* C11 - Fatal-error isolation: an exception that reaches the per-state
\* handler ends the date loop of that state at once (the job is no longer in
\* that state's loop) and only that loop: the job goes on with the next
\* state, in the same chunk or the next one, and returns only after all
\* total_states states were taken up; a 'not found in database' result would
\* end the loop of the current state with that same iteration.
FatalErrorIsolation ==
  /\ [](/\ \A s \in state_failed : s < stateIdx
        /\ cpc \in {"return", "done"} => stateIdx = total_states + 1
        /\ (cpc = "loop" /\ LoopGuard)
             => ~GuardOn(NextDay(HandleResult(Counters, StateNotFoundResult))))
  /\ [][state_failed' # state_failed
          => /\ stateIdx' = stateIdx + 1
             /\ cpc' \in {"start", "save"}
             /\ fetchLog' = fetchLog]_vars

\* A state of the first chunk failed and a state of the second chunk is
\* being fetched.
FatalErrorIsolationWitness ==
  /\ cpc = "loop"
  /\ Len(fetchLog) > 0
  /\ stateIdx > BATCH_SIZE
  /\ \E s \in state_failed : s < BATCH_SIZE

\* C12 - Guaranteed release: when collect_historical_data has finished, the
\* shared connection of the service is closed and _shared_connection is None.
GuaranteedRelease ==
  cpc = "done" => (shared_connection = NoConn /\ raw_open = {})

\* C13 - Nested batches are reference-counted: an end_batch_collection call
\* that leaves an outer start_batch_collection unmatched keeps batch mode
\* active and the shared connection as it is.
NestedBatchesReferenceCounted ==
  [][(batch_depth > 1 /\ batch_depth' = batch_depth - 1)
       => (batch_collection_active' /\ shared_connection' = shared_connection)]_vars

\* C14 - Single batch connection: every result upsert made between
\* start_batch_collection and end_batch_collection runs on the shared
\* connection of that batch, the same one for all of them.
SingleBatchConnection ==
  \A i \in 1..Len(batch_upserts) :
    /\ batch_upserts[i].shared # NoConn
    /\ batch_upserts[i].conn = batch_upserts[i].shared
    /\ batch_upserts[i].conn = batch_upserts[1].conn

\* C15 - Pooled connections are returned: between operations no connection
\* of the pool is checked out.
PooledConnectionsReturned == pool_used = 0

\* C16 - Attempt log pairing: a crawl unit that got past the state lookup
\* with save_to_db and returned has created exactly one collection_log row,
\* that row was finalized exactly once and is not 'pending', and no row was
\* finalized twice.
AttemptLogPairing ==
  /\ (last_unit.looked_up /\ last_unit.save_to_db /\ ~last_unit.raised)
       => /\ Len(collection_log) = last_unit.log_before + 1
          /\ last_unit.row = Len(collection_log)
          /\ collection_log[last_unit.row].finalized = 1
          /\ collection_log[last_unit.row].status # "pending"
  /\ \A i \in 1..Len(collection_log) : collection_log[i].finalized <= 1

AllStatesReturned ==
  job_args.mode = "all_latest" /\ jpc \in {"return", "done"} /\ outcome # "raised"

\* C18 - Overall success: the summary collect_all_states returns has
\* success = true whenever at least one state was collected successfully.
OverallSuccessIfOneSucceeded ==
  AllStatesReturned
    => ((\E i \in 1..Len(all_states_result.state_results) :
           all_states_result.state_results[i].success)
          => all_states_result.success)

\* One state succeeded, another failed, and the summary says success.
OverallSuccessWitness ==
  /\ AllStatesReturned
  /\ all_states_result.success
  /\ \E i, j \in 1..Len(all_states_result.state_results) :
       /\ all_states_result.state_results[i].success
       /\ ~all_states_result.state_results[j].success

\* Every unit attempted for the state failed.
AllFailed(entry) ==
  Len(entry.units) > 0 /\ \A k \in 1..Len(entry.units) : ~entry.units[k]

\* C19 - Failure is visible in the summary: in the summary run_collection_job
\* returns after processing states, the success flag of a state whose every
\* date (or single latest fetch) failed is false, and the overall flag is
\* false when no state succeeded.
FailureVisibleInSummary ==
  (outcome = "returned" /\ Len(job_return.state_results) > 0)
    => /\ \A i \in 1..Len(job_return.state_results) :
            AllFailed(job_return.state_results[i]) => ~job_return.state_results[i].success
       /\ (\A i \in 1..Len(job_return.state_results) :
             AllFailed(job_return.state_results[i]))
            => ~job_return.success

\* C20 - No exception escapes a top-level job driver: run_collection_job
\* ends by returning a summary, after its finally block has run.
NoExceptionEscapes ==
  jpc = "done" => (outcome = "returned" /\ finally_ran)

\* The last call ran on an empty table, no write failed, and a concurrent
\* writer committed its row after the pre-insert re-checks.
RacedAfterCheck ==
  /\ Returned
  /\ rowsBefore = {}
  /\ lastFault = NoFault
  /\ lastRace.phase = "after_check"
  /\ DistinctKeys(lastBatch)

\* The records of the last batch whose insert hit the writer's row.
Conflicting ==
  {i \in 1..Len(lastBatch) :
     /\ uniqueIdx
     /\ lastBatch[i].draw_time # NULL
     /\ SameKey(lastBatch[i], lastRace.rec)}

WriteFailureIsolation ==
  (Returned /\ lastFault.kind # "none")
    => /\ lastRet.insert_errors >= 1
       /\ (lastFault.kind = "insert" /\ rowsBefore = {} /\ DistinctKeys(lastBatch))
            => /\ lastRet.insert_errors = 1
               /\ lastRet.inserted = Len(lastBatch) - 1

\* C23 - Numbers round-trip: a list L of number strings, put into a
\* GameResult, stored by save_many and read back by find_by_id, comes back
\* as L (as the list or as its JSON text).
NumbersRoundTrip ==
  fpc = "read" => fout \in {fin, PyStr(JsonDumps(fin.v))}

\* C24 - Game identity by slug: after any sequence of GameRepository.save_many
\* calls the games table has at most one row per slug; a slug that was
\* already stored is reused (the id of its row is returned and no row is
\* inserted for it), and a slug listed several times in one call creates a
\* single row.
GameIdentityBySlug ==
  /\ \A r1, r2 \in games : r1.slug = r2.slug => r1.id = r2.id
  /\ \A i \in DOMAIN saved_games :
       \A r \in gamesBefore : r.slug = saved_games[i].slug => r.id = saved_games[i].id
  /\ \A r \in games :
       (\E b \in gamesBefore : b.slug = r.slug) => (\E b \in gamesBefore : b.id = r.id)
  /\ \A i \in DOMAIN lastGames :
       saved_games # <<>> =>
         Cardinality({r \in games : r.slug = lastGames[i].slug}) = 1

\* C25 - Idempotent association: after any sequence of save_many(games,
\* state_id) calls, state_games holds exactly one row for every (state_id,
\* game_id) pair touched by a call, and never two rows for one pair, also
\* when one call lists the same game twice.
IdempotentAssociation ==
  /\ \A pair \in touched :
       Cardinality({r \in state_games : r.state_id = pair[1] /\ r.game_id = pair[2]}) = 1
  /\ \A r1, r2 \in state_games :
       (r1.state_id = r2.state_id /\ r1.game_id = r2.game_id) => r1.id = r2.id

\* C26 - Multi-jurisdiction update in place: a record whose numbers or jackpot
\* differ from the stored row of its (game_id, draw_date) updates that row
\* (same id) and creates no second row, whichever state's crawl observed it;
\* the records of one draw seen from several states never fan out into one
\* row per state.
LastOfDate(i) ==
  \A j \in DOMAIN lastBatch :
    (lastBatch[j].game_id = lastBatch[i].game_id /\
     lastBatch[j].draw_date = lastBatch[i].draw_date) => j <= i

UpdatedInPlace(i) ==
  LET gr     == lastBatch[i]
      stored == CHOOSE r \in RowsOfDate(rowsBefore, gr) : TRUE
  IN  (Cardinality(RowsOfDate(rowsBefore, gr)) = 1 /\ NeedsUpdate(stored, gr) /\ LastOfDate(i))
        => \A r \in RowsOfDate(rows, gr) :
             r.id = stored.id /\ r.numbers = gr.numbers /\ r.jackpot = gr.jackpot

NoFanOut(i, j) ==
  (SameKey(lastBatch[i], lastBatch[j]) /\ lastBatch[i].state_id # lastBatch[j].state_id)
    => Cardinality(RowsOf(rows, lastBatch[i])) <= 1

MultiJurisdictionUpdateInPlace ==
  (Returned /\ lastFault.kind = "none")
    => /\ \A i \in DOMAIN lastBatch : UpdatedInPlace(i)
       /\ \A i, j \in DOMAIN lastBatch : NoFanOut(i, j)

\* C27 - Race re-check: when a concurrent writer inserts a row of a record's
\* key after the batch lookup and before the decision to insert, the
\* pre-insert re-check finds that row; the record is counted unchanged when
\* its fields equal the row and becomes an update of that row when they
\* differ, and it is never inserted as a second row.
RacedAfterLookup ==
  /\ calls > 0
  /\ ~hung
  /\ lastRace.phase = "after_lookup"
  /\ lastFault.kind = "none"
  /\ rowsBefore = {}
  /\ DistinctKeys(lastBatch)

ReChecked == {i \in 1..Len(lastBatch) : SameKey(lastRace.rec, lastBatch[i])}

RaceReCheck ==
  RacedAfterLookup
    => \A i \in ReChecked :
         /\ Cardinality(RowsOf(rows, lastBatch[i])) = 1
         /\ lastRet.inserted = Len(lastBatch) - 1
         /\ IF NeedsUpdate(lastRace.rec, lastBatch[i])
            THEN /\ lastRet.updated = 1
                 /\ lastRet.unchanged = 0
                 /\ \A r \in RowsOf(rows, lastBatch[i]) : ~NeedsUpdate(r, lastBatch[i])
            ELSE /\ lastRet.updated = 0
                 /\ lastRet.unchanged = 1

\* C28 - Consistent classification: a game is multi-jurisdiction exactly when
\* its name contains one of MULTI_STATE_GAMES, case-insensitively, and every
\* place that classifies it (where the Game is built, where the dedup key
\* of its result is chosen, in save_many) computes that same value.
ConsistentClassification ==
  LET expected == Class(\E mg \in MULTI_STATE_GAMES : Contains(Lower(fin), Lower(mg)))
  IN  fpc = "classify"
        => \A computed \in {fout.build, fout.key, fout.save} :
             computed \in {"none", expected}

\* C29 - Five-minute buckets: round_time_to_5min maps every time of day to a
\* time whose minute is a multiple of 5 and whose second is 0, at most 2
\* minutes away from its input counted modulo 24 hours, and it is
\* idempotent; every draw_time and next_draw_time a GameResult holds is in
\* this rounded form.
SecondOfDay(t) == t.v[1] * 3600 + t.v[2] * 60 + t.v[3]

Apart(a, b) ==
  LET d == IF SecondOfDay(a) >= SecondOfDay(b) THEN SecondOfDay(a) - SecondOfDay(b)
           ELSE SecondOfDay(b) - SecondOfDay(a)
  IN  IF d <= 86400 - d THEN d ELSE 86400 - d

InBucket(t) == t.v[2] % 5 = 0 /\ t.v[3] = 0

FiveMinuteBuckets ==
  /\ (fpc \in {"rounded", "held"} /\ fin.type = "time")
       => /\ fout.type = "time"
          /\ InBucket(fout)
          /\ Apart(fin, fout) <= 120
          /\ round_time_to_5min(fout) = fout
  /\ (fpc = "again" /\ fin.type = "time")
       => fout \in {round_time_to_5min(fin)}

\* C30 - Consecutive-empty counter: in the historical date loop
\* empty_days_count is reset to 0 by, and only by, a date that yields at
\* least one record, and otherwise it never decreases; so, the first-day and
\* state-not-found rules apart, the loop stops before max_days only after
\* MAX_EMPTY_DAYS or more dates in a row without a record.
RecordsDate(e) == e.result.success /\ e.result.games_collected > 0

ForcedExit(k) ==
  LET error_msg == fetchLog[k].result.message
  IN  /\ ~fetchLog[k].result.success
      /\ ~ShouldSkip(error_msg)
      /\ \/ Contains(error_msg, <<"No", "games", "found">>) /\ k = 1
         \/ Contains(error_msg, <<"not", "found", "in", "database">>)

StoppedEarly ==
  /\ cpc = "loop"
  /\ fetchLog # <<>>
  /\ days_processed < max_days
  /\ empty_days_count >= MAX_EMPTY_DAYS
  /\ ~ForcedExit(Len(fetchLog))

ConsecutiveEmptyCounter ==
  /\ \A k \in DOMAIN fetchLog :
       /\ fetchLog[k].empty_before = (IF k = 1 THEN 0 ELSE fetchLog[k - 1].empty_after)
       /\ RecordsDate(fetchLog[k]) => fetchLog[k].empty_after = 0
       /\ ~RecordsDate(fetchLog[k]) => fetchLog[k].empty_after >= fetchLog[k].empty_before
  /\ (cpc = "loop" /\ fetchLog # <<>>) => empty_days_count = fetchLog[Len(fetchLog)].empty_after
  /\ StoppedEarly
       => /\ Len(fetchLog) >= MAX_EMPTY_DAYS
          /\ \A k \in (Len(fetchLog) - MAX_EMPTY_DAYS + 1)..Len(fetchLog) :
               ~RecordsDate(fetchLog[k])

\* A date with records, then MAX_EMPTY_DAYS dates without, and the loop has
\* stopped with a day of max_days left.
ConsecutiveEmptyCounterWitness ==
  /\ StoppedEarly
  /\ Len(fetchLog) = MAX_EMPTY_DAYS + 1
  /\ RecordsDate(fetchLog[1])

\* C31 - Release is a no-op during a batch: while the batch flag is set,
\* _release_shared_connection leaves _shared_connection and the flag as they
\* are; the shared connection is closed and set to None only by
\* end_batch_collection, or by _release_shared_connection with no batch
\* active.
ReleaseNoOpDuringBatch ==
  [][/\ \A t \in Threads :
          (ReleaseBody(t) /\ batch_collection_active)
            => UNCHANGED <<shared_connection, batch_collection_active, raw_open>>
     /\ (shared_connection # NoConn /\ shared_connection' # shared_connection)
          => /\ shared_connection' = NoConn
             /\ raw_open' = raw_open \ {shared_connection[2]}
             /\ \E t \in Threads :
                  EndBody(t) \/ (ReleaseBody(t) /\ ~batch_collection_active)]_vars

\* _release_shared_connection has just run in a batch that holds a connection.
ReleaseNoOpDuringBatchWitness ==
  /\ last_op.op = "release"
  /\ last_op.active
  /\ batch_collection_active
  /\ shared_connection # NoConn

\* C32 - Committed updates: every update save_many counts in `updated` is
\* committed when save_many returns, whether or not the batch also has
\* inserts and whether they succeed or fail.
\* A row stored before the call holds the values of a record that differed.
StoredRowTookValues ==
  \E i \in DOMAIN lastBatch : \E r \in rows : \E b \in rowsBefore :
    /\ b.id = r.id
    /\ NeedsUpdate(b, lastBatch[i])
    /\ ~NeedsUpdate(r, lastBatch[i])

\* A row inserted by this call took the values of a later record of its key.
NewRowTookValues ==
  \E i, j \in DOMAIN lastBatch : \E r \in rows :
    /\ i < j
    /\ SameKey(lastBatch[i], lastBatch[j])
    /\ NeedsUpdate(lastBatch[i], lastBatch[j])
    /\ r \in RowsOf(rows, lastBatch[j])
    /\ \A b \in rowsBefore : b.id # r.id
    /\ ~NeedsUpdate(r, lastBatch[j])

CommittedUpdates ==
  (Returned /\ lastRet.updated > 0) => (StoredRowTookValues \/ NewRowTookValues)

\* C33 - Count conservation: in the summary save_many returns, inserted +
\* updated + unchanged + insert_errors equals the number of input records
\* (each has a game_id), for every mix of matches, conflicts, failed updates
\* and failed inserts.
CountConservation ==
  Returned
    => lastRet.inserted + lastRet.updated + lastRet.unchanged + lastRet.insert_errors
         = Len(lastBatch)

\* collect_games_by_date pairs the i-th page section with saved_games[i]:
\* the game id under which the result of section i is stored, NULL when
\* the returned list is too short and the section is skipped.
PairedGameId(sections, saved, i) ==
  IF i <= Len(saved) THEN saved[i].id ELSE NULL

\* C34 - Result-to-game attribution: with save_to_db = True every extracted
\* result is stored under the game id of the game whose page section it was
\* extracted from, for any mix of stored and new games on the page.
ResultToGameAttribution ==
  \A i \in DOMAIN lastGames :
    LET game_id == PairedGameId(lastGames, saved_games, i)
    IN  game_id # NULL
          => \E g \in games : g.id = game_id /\ g.slug = lastGames[i].slug

RECURSIVE SumOf(_)
SumOf(seq) == IF seq = <<>> THEN 0 ELSE Head(seq) + SumOf(Tail(seq))

\* C35 - Buffered hand-off: every record collect_historical_data appended to
\* batch_results is passed to GameResultRepository.save_many exactly once,
\* with the save at the end of its chunk, also when a later date or a later
\* state of the chunk raised; none is passed again with a later chunk.
BufferedHandOff ==
  /\ records_appended = SumOf(chunk_saves) + batch_results
  /\ cpc \in {"return", "done"} => batch_results = 0
  /\ (cpc = "start" /\ (stateIdx - 1) % BATCH_SIZE = 0) => batch_results = 0

\* The records of the first chunk were saved although the last state of
\* that chunk raised after them, and the second chunk saved its own records.
BufferedHandOffWitness ==
  /\ cpc = "done"
  /\ Len(chunk_saves) = 2
  /\ state_failed = {BATCH_SIZE}

RECURSIVE SumOfStates(_)
SumOfStates(entries) ==
  IF entries = <<>> THEN 0
  ELSE Head(entries).games_collected + SumOfStates(Tail(entries))

RECURSIVE SumOfDates(_)
SumOfDates(date_results) ==
  IF date_results = <<>> THEN 0
  ELSE (IF Head(date_results).success THEN Head(date_results).games_collected ELSE 0)
         + SumOfDates(Tail(date_results))

TotalsAgree(summary, with_dates) ==
  /\ summary.games_collected = SumOfStates(summary.state_results)
  /\ summary.states_processed = Len(summary.state_results)
  /\ with_dates =>
       \A i \in 1..Len(summary.state_results) :
         summary.state_results[i].games_collected
           = SumOfDates(summary.state_results[i].date_results)

\* C36 - Summary totals: in every summary run_collection_job and
\* collect_all_states return, games_collected is the sum of the per-state
\* counts, each per-state count is the sum of the games_collected of its
\* successful dates, and states_processed is the number of state_results.
SummaryTotals ==
  /\ outcome = "returned" => TotalsAgree(job_return, HasDates)
  /\ (job_args.mode = "all_latest" /\ jpc \in {"return", "done"} /\ outcome # "raised")
       => TotalsAgree(all_states_result, FALSE)

\* A returned week summary with a state that had two successful dates with
\* games and a state with a failed date.
SummaryTotalsWitness ==
  /\ outcome = "returned"
  /\ HasDates
  /\ job_return.games_collected >= 2
  /\ \E i \in 1..Len(job_return.state_results) :
       LET d == job_return.state_results[i].date_results
       IN  Len(d) = 2 /\ d[1].success /\ d[2].success
           /\ d[1].games_collected > 0 /\ d[2].games_collected > 0
  /\ \E i \in 1..Len(job_return.state_results) :
       \E k \in 1..Len(job_return.state_results[i].date_results) :
         ~job_return.state_results[i].date_results[k].success

LatestModeSucceeds ==
  (/\ last_unit.method = "by_state"
   /\ last_unit.save_to_db
   /\ last_unit.looked_up
   /\ ~last_unit.raised
   /\ last_unit.page.kind = "games")
    => /\ last_unit.result.success
       /\ last_unit.result.games_collected = last_unit.page.games
       /\ last_unit.row > 0
       /\ collection_log[last_unit.row].status = "success"
====
